---------------------------- MODULE Spec2Model ----------------------------
(***************************************************************************)
(* Model of the DataWarp loader: the schema-stable writer (load_dataframe  *)
(* with drift detection against a SheetMapping), the enrich command, the   *)
(* sheet structure extractor (FileExtractor.infer_structure) and the batch *)
(* drivers (process_data_file, load_period_files).                         *)
(*                                                                         *)
(* Identifiers are sequences of one-character strings, so that             *)
(* sanitize_name and the suffixing of duplicates are computed character by *)
(* character as the code does.                                             *)
(***************************************************************************)
EXTENDS Integers, Sequences, FiniteSets, Bags, TLC

VARIABLES
    column_mappings,      \* SheetMapping.column_mappings: sanitized -> canonical
    column_descriptions,  \* SheetMapping.column_descriptions
    mappings_version,     \* SheetMapping.mappings_version
    saved,                \* the pipeline config holds the sheet mapping
    table,                \* the destination table: [exists, cols, rows]
    ops,                  \* number of commands run so far
    last,                 \* what the last command was given and what it did
    written,              \* every (sanitized source, canonical) pair written so far
    ws,                   \* the worksheet of the extractor: [max_row, max_column, cells]
    structure,            \* FileExtractor._structure after infer_structure
    fault,                \* the step of infer_structure at which the worksheet read failed
    extracted,            \* what extract_data returned: the rows, each with its row number
    row_cache,            \* FileExtractor._row_cache: row -> the cached cell values
    cell_read,            \* the last cell read, and what each of the two reads returned
    batch,                \* the batch of the driver: per file, per sheet, what will happen
    driver,               \* which driver runs the batch
    pos,                  \* the driver's position: [file, sheet]
    processed,            \* the (file, sheet) pairs the driver has handled
    aborted,              \* TRUE once an exception has left the driver
    pg,                   \* the committed destination table of the concurrent loads
    txn,                  \* per worker, the open transaction of its load call
    nloads,               \* number of load calls started by the workers
    gdf,                  \* the frame given to the grain classifier
    grain_info,           \* the result of detect_grain
    llm_call,             \* a call of enrich_sheet: its columns and how the LLM behaves
    enrichment,           \* what the call of enrich_sheet returned or raised
    filename,             \* the text given to parse_period and parse_period_range
    periods,              \* what the two functions returned for it
    column,               \* a column given to the type inference: [name, cells]
    inferred_type         \* ColumnInfo.inferred_type of the column

loadVars == <<column_mappings, column_descriptions, mappings_version, saved, table, ops,
             last, written>>
extractVars == <<ws, structure, fault, extracted, row_cache, cell_read>>
batchVars == <<batch, driver, pos, processed, aborted>>
concVars == <<pg, txn, nloads>>
grainVars == <<gdf, grain_info>>
enrichVars == <<llm_call, enrichment>>
periodVars == <<filename, periods>>
typeVars == <<column, inferred_type>>
restVars == <<concVars, grainVars, enrichVars, periodVars, typeVars>>
vars == <<column_mappings, column_descriptions, mappings_version, saved, table, ops, last,
          written, ws, structure, fault, extracted, row_cache, cell_read, batch, driver, pos, processed, aborted,
          pg, txn, nloads, gdf, grain_info, llm_call, enrichment, filename, periods,
          column, inferred_type>>

-----------------------------------------------------------------------------
(* Bounds of the model *)

MaxOps == 3         \* commands (loads, enrich runs) in one behaviour

-----------------------------------------------------------------------------
(* Characters and strings *)

LowerAlphabet ==
    <<"a", "b", "c", "d", "e", "f", "g", "h", "i", "j", "k", "l", "m", "n",
      "o", "p", "q", "r", "s", "t", "u", "v", "w", "x", "y", "z">>
UpperAlphabet ==
    <<"A", "B", "C", "D", "E", "F", "G", "H", "I", "J", "K", "L", "M", "N",
      "O", "P", "Q", "R", "S", "T", "U", "V", "W", "X", "Y", "Z">>

LowerLetters == {LowerAlphabet[i] : i \in DOMAIN LowerAlphabet}
UpperLetters == {UpperAlphabet[i] : i \in DOMAIN UpperAlphabet}
DigitChars == {"0", "1", "2", "3", "4", "5", "6", "7", "8", "9"}
\* [\s\-./\\()]
SeparatorChars == {" ", "-", ".", "/", "\\", "(", ")"}

\* str.lower() on one character
ToLower(c) ==
    IF c \in UpperLetters
    THEN LowerAlphabet[CHOOSE i \in DOMAIN UpperAlphabet : UpperAlphabet[i] = c]
    ELSE c

Lower(s) == [i \in 1..Len(s) |-> ToLower(s[i])]

\* re.sub(r'[set]+', rep, s): every maximal run of characters of the set becomes rep
RECURSIVE SubRuns(_, _, _, _)
SubRuns(s, set, rep, inRun) ==
    IF s = <<>> THEN <<>>
    ELSE IF Head(s) \in set
         THEN (IF inRun THEN <<>> ELSE rep) \o SubRuns(Tail(s), set, rep, TRUE)
         ELSE <<Head(s)>> \o SubRuns(Tail(s), set, rep, FALSE)

RECURSIVE LStrip(_, _)
LStrip(s, set) ==
    IF s # <<>> /\ Head(s) \in set THEN LStrip(Tail(s), set) ELSE s

RECURSIVE RStrip(_, _)
RStrip(s, set) ==
    IF s # <<>> /\ s[Len(s)] \in set THEN RStrip(SubSeq(s, 1, Len(s) - 1), set) ELSE s

Strip(s, set) == RStrip(LStrip(s, set), set)

StartsWith(s, prefix) ==
    /\ Len(s) >= Len(prefix)
    /\ SubSeq(s, 1, Len(prefix)) = prefix

\* str(n) for a natural number
RECURSIVE DigitsOf(_)
DigitsOf(n) ==
    LET d == <<"0", "1", "2", "3", "4", "5", "6", "7", "8", "9">>[(n % 10) + 1]
    IN IF n < 10 THEN <<d>> ELSE DigitsOf(n \div 10) \o <<d>>

PgIdentLimit == 63
UnnamedStr == <<"u", "n", "n", "a", "m", "e", "d">>
PeriodCol == <<"p", "e", "r", "i", "o", "d">>

\* sanitize_name
sanitize_name(name) ==
    IF name = <<>> THEN UnnamedStr
    ELSE
      LET lowered == Lower(name)
          separated == SubRuns(lowered, SeparatorChars, <<"_">>, FALSE)
          alnum == SelectSeq(separated,
                       LAMBDA c : c \in LowerLetters \cup DigitChars \cup {"_"})
          collapsed == SubRuns(alnum, {"_"}, <<"_">>, FALSE)
          stripped == Strip(collapsed, {"_"})
          lettered == IF stripped # <<>> /\ stripped[1] \notin LowerLetters
                      THEN <<"c", "_">> \o stripped
                      ELSE stripped
          truncated == IF Len(lettered) > PgIdentLimit
                       THEN RStrip(SubSeq(lettered, 1, PgIdentLimit), {"_"})
                       ELSE lettered
      IN IF truncated = <<>> THEN UnnamedStr ELSE truncated

-----------------------------------------------------------------------------
(* DataFrames: [columns: sequence of names, data: sequence of rows], a row *)
(* being a sequence of cell values aligned with the columns.               *)

NaN == "NaN"           \* a missing cell
NoPeriod == ""         \* period not given (None or the empty string)
Periods == {"2024-11", "2024-12"}

Range(f) == {f[x] : x \in DOMAIN f}
IsInjective(s) == \A i, j \in DOMAIN s : s[i] = s[j] => i = j
IndexOf(s, e) == CHOOSE i \in DOMAIN s : s[i] = e

\* pandas DataFrame.empty: some axis has length 0
DfEmpty(df) == Len(df.columns) = 0 \/ Len(df.data) = 0

\* the columns of df at the positions keep (an increasing sequence)
SelectColumns(df, keep) ==
    [columns |-> [k \in 1..Len(keep) |-> df.columns[keep[k]]],
     data |-> [r \in 1..Len(df.data) |-> [k \in 1..Len(keep) |-> df.data[r][keep[k]]]]]

\* the elements of a set of positions, in increasing order
RECURSIVE Ascending(_)
Ascending(S) ==
    IF S = {} THEN <<>>
    ELSE LET m == CHOOSE x \in S : \A y \in S : x <= y
         IN <<m>> \o Ascending(S \ {m})

\* df.dropna(how='all').dropna(axis=1, how='all')
DropNa(df) ==
    LET rowsKept == SelectSeq(df.data, LAMBDA row : \E j \in DOMAIN row : row[j] # NaN)
        df1 == [columns |-> df.columns, data |-> rowsKept]
        colsKept == {j \in 1..Len(df1.columns) :
                        \E r \in DOMAIN df1.data : df1.data[r][j] # NaN}
    IN SelectColumns(df1, Ascending(colsKept))

\* df.drop(columns=[c for c in df.columns if str(c).lower().startswith('unnamed')])
DropUnnamed(df) ==
    SelectColumns(df, Ascending({j \in 1..Len(df.columns) :
                                    ~StartsWith(Lower(df.columns[j]), UnnamedStr)}))

\* column_mappings.get(sanitized, sanitized)
Canonical(cm, orig_col) ==
    LET sanitized == sanitize_name(orig_col)
    IN IF sanitized \in DOMAIN cm THEN cm[sanitized] ELSE sanitized

\* final_columns and df.rename(columns=final_columns)
RenameColumns(cm, columns) == [j \in 1..Len(columns) |-> Canonical(cm, columns[j])]

\* "Handle duplicate column names (add suffix)": the n-th repetition of a name
\* gets the suffix _n
Dedup(columns) ==
    [j \in 1..Len(columns) |->
        LET earlier == Cardinality({i \in 1..(j - 1) : columns[i] = columns[j]})
        IN IF earlier = 0 THEN columns[j]
           ELSE columns[j] \o <<"_">> \o DigitsOf(earlier)]

\* df['period'] = period: overwrites the column named period, or appends it
AddPeriod(df, period) ==
    IF period = NoPeriod THEN df
    ELSE IF PeriodCol \in Range(df.columns)
    THEN [columns |-> df.columns,
          data |-> [r \in 1..Len(df.data) |->
                      [j \in 1..Len(df.columns) |->
                          IF df.columns[j] = PeriodCol THEN period ELSE df.data[r][j]]]]
    ELSE [columns |-> Append(df.columns, PeriodCol),
          data |-> [r \in 1..Len(df.data) |-> Append(df.data[r], period)]]

\* x in s, for strings
Contains(s, sub) ==
    \E i \in 1..(Len(s) - Len(sub) + 1) : SubSeq(s, i, i + Len(sub) - 1) = sub

TextHints == {<<"d", "e", "s", "c", "r", "i", "p", "t", "i", "o", "n">>,
              <<"d", "e", "f", "i", "n", "i", "t", "i", "o", "n">>,
              <<"n", "o", "t", "e", "s">>,
              <<"c", "o", "m", "m", "e", "n", "t">>,
              <<"d", "e", "t", "a", "i", "l">>}

\* _infer_pg_type for a column of short text cells (object dtype)
InferPgType(name, values) ==
    IF \E h \in TextHints : Contains(Lower(name), h) THEN "TEXT"
    ELSE IF \A i \in DOMAIN values : values[i] = NaN THEN "TEXT"
    ELSE "VARCHAR(50)"

-----------------------------------------------------------------------------
(* detect_column_drift and the drift block of load_dataframe *)

\* detect_column_drift: the new and the missing columns
detect_column_drift(df_columns, cm) ==
    LET current_cols == {sanitize_name(c) : c \in Range(df_columns)}
        saved_cols == DOMAIN cm
    IN [new_cols |-> {c \in current_cols \ saved_cols : ~StartsWith(c, <<"_">>)},
        missing_cols |-> {c \in saved_cols \ current_cols : ~StartsWith(c, <<"_">>)}]

\* a drift block that records nothing
NoDriftUpdate(df, sm) == sm

\* a drift block that also forgets the columns the input no longer has
DriftForgetsMissing(df, sm) ==
    IF DOMAIN sm.column_mappings = {} THEN sm
    ELSE
      LET drift == detect_column_drift(df.columns, sm.column_mappings)
          new == drift.new_cols
          kept == DOMAIN sm.column_mappings \ drift.missing_cols
      IN IF new = {} /\ drift.missing_cols = {} THEN sm
         ELSE [column_mappings |->
                  [c \in kept \cup new |->
                      IF c \in kept THEN sm.column_mappings[c] ELSE c],
               column_descriptions |->
                  [c \in DOMAIN sm.column_descriptions \cup new |->
                      IF c \in new THEN "" ELSE sm.column_descriptions[c]],
               mappings_version |->
                  sm.mappings_version + (IF new = {} THEN 0 ELSE 1)]

\* "DRIFT DETECTION" of load_dataframe, called with column_mappings the dict of
\* sheet_mapping: the sheet mapping after it
DriftUpdate(df, sm) ==
    IF DOMAIN sm.column_mappings = {} THEN sm
    ELSE
      LET drift == detect_column_drift(df.columns, sm.column_mappings)
          new == drift.new_cols
      IN IF new = {} THEN sm
         ELSE [column_mappings |->
                  [c \in DOMAIN sm.column_mappings \cup new |->
                      IF c \in DOMAIN sm.column_mappings
                      THEN sm.column_mappings[c] ELSE c],
               column_descriptions |->
                  [c \in DOMAIN sm.column_descriptions \cup new |->
                      IF c \in new THEN "" ELSE sm.column_descriptions[c]],
               mappings_version |-> sm.mappings_version + 1]

-----------------------------------------------------------------------------
(* The destination table and the write phase of load_dataframe *)

NoTable == [exists |-> FALSE, cols |-> <<>>, rows |-> EmptyBag]

\* one DataFrame row as a table row: the non-null cells by column name
\* (a column the row does not name holds NULL)
TableRow(columns, cells) ==
    [c \in {columns[j] : j \in {k \in 1..Len(columns) : cells[k] # NaN}} |->
        cells[IndexOf(columns, c)]]

RECURSIVE RowsToBag(_, _)
RowsToBag(columns, data) ==
    IF data = <<>> THEN EmptyBag
    ELSE SetToBag({TableRow(columns, Head(data))}) (+) RowsToBag(columns, Tail(data))

\* cur.execute(ddl): CREATE TABLE IF NOT EXISTS with the column definitions
CreateTableIfNotExists(t, col_defs) ==
    IF t.exists THEN t
    ELSE [exists |-> TRUE, cols |-> col_defs, rows |-> EmptyBag]

\* a loop that adds no column
AddNoColumns(t, existing_cols, columns) == t

\* the ALTER TABLE ... ADD COLUMN loop over df.columns
RECURSIVE AddMissingColumns(_, _, _)
AddMissingColumns(t, existing_cols, columns) ==
    IF columns = <<>> THEN t
    ELSE AddMissingColumns(
            IF Head(columns) \notin existing_cols
            THEN [t EXCEPT !.cols = Append(t.cols, Head(columns))]
            ELSE t,
            existing_cols, Tail(columns))

\* DELETE without effect, and DELETE without its WHERE clause
DeletePeriodKeepsAll(t, period) == t
DeletePeriodDropsAll(t, period) == [t EXCEPT !.rows = EmptyBag]

\* DELETE FROM table WHERE period = %s
DeletePeriod(t, period) ==
    LET kept == {r \in DOMAIN t.rows : ~(PeriodCol \in DOMAIN r /\ r[PeriodCol] = period)}
    IN [t EXCEPT !.rows = [r \in kept |-> t.rows[r]]]

\* COPY table (columns) FROM STDIN
CopyRows(t, columns, data) == [t EXCEPT !.rows = t.rows (+) RowsToBag(columns, data)]

\* the column list of the CREATE TABLE and ADD COLUMN statements: col_defs,
\* built from df.columns in step 2
DdlColumns(df) == df.columns

NumericTypePrefixes == {"NUMERIC", "DOUBLE", "INTEGER", "SMALLINT", "BIGINT", "REAL"}
PgTypePrefix(pg_type) ==
    CASE pg_type = "VARCHAR(50)" -> "VARCHAR"
      [] pg_type = "DOUBLE PRECISION" -> "DOUBLE"
      [] OTHER -> pg_type

\* "Convert empty strings to NaN for numeric columns": df[col] = df[col].replace('', pd.NA)
ReplaceEmptyStrings(df, column_types) ==
    [columns |-> df.columns,
     data |-> [r \in 1..Len(df.data) |->
                 [j \in 1..Len(df.columns) |->
                     IF /\ PgTypePrefix(column_types[df.columns[j]]) \in NumericTypePrefixes
                        /\ df.data[r][j] = ""
                     THEN NaN ELSE df.data[r][j]]]]

\* a COPY column list that leaves the period column out
CopyColumnsWithoutPeriod(df) == SelectSeq(df.columns, LAMBDA c : c # PeriodCol)

\* the column list of the COPY statement: columns_quoted, built from df.columns
\* after the empty-string replacement
CopyColumns(df) == df.columns

WriteSteps == <<"create", "alter", "delete", "copy", "commit">>
FailPoints == {"none"} \cup Range(WriteSteps)
StepNo(step) == IF step = "none" THEN Len(WriteSteps) + 1 ELSE IndexOf(WriteSteps, step)

\* a connection that commits whatever happened
CommitAlways(before, work, raised) == work

\* get_connection: commit when the block ends normally, rollback when it raises
GetConnectionExit(before, work, raised) == IF raised THEN before ELSE work

\* the body of "with get_connection() as conn": the table as the transaction
\* sees it when the statement failAt raises (all statements run when none does)
WriteWork(t, df, column_types, period, failAt) ==
    LET reached(step) == StepNo(step) < StepNo(failAt)
        created == IF reached("create") THEN CreateTableIfNotExists(t, DdlColumns(df)) ELSE t
        existing_cols == Range(created.cols)
        altered == IF reached("alter")
                   THEN AddMissingColumns(created, existing_cols, DdlColumns(df))
                   ELSE created
        deleted == IF reached("delete") /\ period # NoPeriod /\ PeriodCol \in existing_cols
                   THEN DeletePeriod(altered, period)
                   ELSE altered
        prepared == ReplaceEmptyStrings(df, column_types)
        copied == IF reached("copy")
                  THEN CopyRows(deleted, CopyColumns(prepared), prepared.data)
                  ELSE deleted
    IN copied

\* extractor_types of a call that passes none: extractor_types or {}
NoExtractorTypes == <<>>

\* load_dataframe after its drift block, with the mapping dict cm: the table
\* afterwards, the return value, and what was sent.  failAt is the statement of
\* the write phase that raises ("none": no statement does).
LoadFrame(df, period, cm, t, failAt, extractor_types) ==
    LET skipped == [table |-> t, outcome |-> "skipped", rows_loaded |-> 0,
                    learned_mappings |-> <<>>, column_types |-> <<>>,
                    ddl_columns |-> <<>>, copy_columns |-> <<>>, sources |-> <<>>,
                    canonicals |-> <<>>, final |-> <<>>, data |-> <<>>, cause |-> "none"]
    IN IF DfEmpty(df) THEN skipped
       ELSE
         LET df2 == DropNa(df)
         IN IF DfEmpty(df2) THEN skipped
            ELSE
              LET df3 == DropUnnamed(df2)
                  final_columns == RenameColumns(cm, df3.columns)
                  df4 == AddPeriod([columns |-> Dedup(final_columns), data |-> df3.data],
                                   period)
                  \* a repeated name: df[col] is a frame and _infer_pg_type raises,
                  \* or the name has an extractor type and the DDL or the COPY
                  \* names a column twice
                  duplicated == ~IsInjective(df4.columns)
                  column_types == [c \in Range(df4.columns) |->
                                      IF c \in DOMAIN extractor_types
                                      THEN extractor_types[c]
                                      ELSE LET j == IndexOf(df4.columns, c)
                                           IN InferPgType(c, [r \in 1..Len(df4.data) |->
                                                                 df4.data[r][j]])]
                  \* COPY with an empty column list is a syntax error
                  fails == IF Len(df4.columns) = 0 /\ StepNo(failAt) > StepNo("copy")
                           THEN "copy" ELSE failAt
                  raised == duplicated \/ fails # "none"
                  work == IF duplicated THEN t
                          ELSE WriteWork(t, df4, column_types, period, fails)
                  sources == [j \in 1..Len(df3.columns) |-> sanitize_name(df3.columns[j])]
              IN [table |-> GetConnectionExit(t, work, raised),
                  outcome |-> IF raised THEN "raised" ELSE "loaded",
                  rows_loaded |-> IF raised THEN 0 ELSE Len(df4.data),
                  learned_mappings |->
                      IF raised THEN <<>>
                      ELSE [s \in Range(sources) |->
                               final_columns[CHOOSE j \in DOMAIN sources :
                                   /\ sources[j] = s
                                   /\ \A k \in DOMAIN sources : sources[k] = s => k <= j]],
                  column_types |-> IF raised THEN <<>> ELSE column_types,
                  ddl_columns |-> IF duplicated THEN <<>> ELSE DdlColumns(df4),
                  copy_columns |-> IF duplicated \/ StepNo(fails) < StepNo("copy") THEN <<>>
                                   ELSE CopyColumns(ReplaceEmptyStrings(df4, column_types)),
                  sources |-> sources,
                  canonicals |-> final_columns,
                  final |-> df4.columns,
                  data |-> df4.data,
                  cause |-> IF duplicated THEN "duplicate" ELSE fails]

\* load_dataframe(df, table_name, period=period, column_mappings=sm.column_mappings,
\* sheet_mapping=sm): the drift block changes sm in place, and the rest of the
\* call reads the changed dict
load_dataframe(df, period, sm, t, failAt, extractor_types) ==
    LET sm1 == DriftUpdate(df, sm)
    IN [sm |-> sm1,
        res |-> LoadFrame(df, period, sm1.column_mappings, t, failAt, extractor_types)]

-----------------------------------------------------------------------------
(* enrich_command, for the one sheet mapping of the pipeline *)

\* dict.get(key, default)
Get(d, key, default) == IF key \in DOMAIN d THEN d[key] ELSE default

\* _fallback_enrichment: identity names, empty descriptions
FallbackEnrichment(columns) ==
    [columns |-> [c \in columns |-> c], descriptions |-> [c \in columns |-> ""]]

\* the description the merge loop finds for col: by the suggested name, then by
\* the current semantic name, then by the column's own name
FoundDescription(sm, enriched, col) ==
    LET new_semantic == Get(enriched.columns, col, <<>>)
        d1 == IF new_semantic # <<>> THEN Get(enriched.descriptions, new_semantic, "") ELSE ""
        d2 == IF d1 # "" THEN d1
              ELSE Get(enriched.descriptions, Get(sm.column_mappings, col, col), "")
    IN IF d2 # "" THEN d2 ELSE Get(enriched.descriptions, col, "")

\* the columns whose description the merge loop replaces
Filled(sm, enriched, cols_to_enrich, force) ==
    {col \in cols_to_enrich :
        /\ FoundDescription(sm, enriched, col) # ""
        /\ (force \/ Get(sm.column_descriptions, col, "") = "")}

\* "Optionally update the semantic name mapping too"
Renamed(enriched, filled) ==
    {col \in filled : LET new_semantic == Get(enriched.columns, col, <<>>)
                      IN new_semantic # <<>> /\ new_semantic # col}

\* "Find columns needing enrichment"
ColsToEnrich(sm, force) ==
    {c \in DOMAIN sm.column_descriptions : force \/ sm.column_descriptions[c] = ""}

\* current_cols: the table's columns that do not start with an underscore,
\* taken from the sample
CurrentCols(t) == {c \in Range(t.cols) : ~StartsWith(c, <<"_">>)}

\* the names of current_cols that the merge loop looks up in the reply: a
\* column to enrich, or its current semantic name
LookedUp(sm, t, force) ==
    {c \in CurrentCols(t) :
        \E col \in ColsToEnrich(sm, force) :
            c = col \/ c = Get(sm.column_mappings, col, col)}

\* enrich_sheet is reached: there is a column to enrich, the run is not a dry
\* run, and _get_sample_data neither raises (no table) nor returns no row
CallsEnrichSheet(sm, t, force, dry_run) ==
    /\ ColsToEnrich(sm, force) # {}
    /\ ~dry_run
    /\ t.exists
    /\ t.rows # EmptyBag

\* an enrich command that counts a run as enriching whatever the merge filled
EnrichAlwaysBumps(sm, t, force, dry_run, enriched) ==
    IF ~CallsEnrichSheet(sm, t, force, dry_run) THEN sm
    ELSE [sm EXCEPT !.mappings_version = @ + 1]

\* the body of enrich_command for one sheet mapping: sm afterwards.
\* enriched is what enrich_sheet returns.
enrich_command(sm, t, force, dry_run, enriched) ==
    IF ~CallsEnrichSheet(sm, t, force, dry_run) THEN sm
    ELSE
      LET filled == Filled(sm, enriched, ColsToEnrich(sm, force), force)
          renamed == Renamed(enriched, filled)
      IN IF filled = {} THEN sm
         ELSE [column_mappings |->
                  [c \in DOMAIN sm.column_mappings \cup renamed |->
                      IF c \in renamed THEN enriched.columns[c]
                      ELSE sm.column_mappings[c]],
               column_descriptions |->
                  [c \in DOMAIN sm.column_descriptions |->
                      IF c \in filled THEN FoundDescription(sm, enriched, c)
                      ELSE sm.column_descriptions[c]],
               mappings_version |-> sm.mappings_version + 1]

-----------------------------------------------------------------------------
(* FileExtractor: the structure of one worksheet.  A worksheet is             *)
(* [max_row, max_column, cells], cells a sequence of rows of cell values.     *)

None == "None"      \* an empty cell, and an absent error message

\* the cell values of the model's worksheets, by what the extractor's tests
\* say about them (no value is a unit label, a fiscal year or a quarter)
SuppressedCells == {"-"}                        \* SUPPRESSED_VALUES
CalendarYearCells == {"2023", "2024"}           \* PATTERNS['calendar_year']
FloatCells == {"12", "7", "2023", "2024"}       \* float(s) succeeds
SkipPrefixCells == {"Table 1", "Note: see"}     \* startswith(('table', 'this', 'note'))
StopWordCells == {"Note: see", "Source"}                \* startswith(sw) for sw in STOP_WORDS
MetadataCells == {}                             \* an indicator of METADATA_INDICATORS in it

\* the characters of the cell values
CellSpelling ==
    [v \in {"Area", "Code", "Beds", "Region", "North", "South", "R1", "2023",
            "2024", "12", "7", "-", "Note: see", "Table 1", "Source", "Area_1",
            "Long"} |->
        CASE v = "Area" -> <<"A", "r", "e", "a">>
          [] v = "Code" -> <<"C", "o", "d", "e">>
          [] v = "Beds" -> <<"B", "e", "d", "s">>
          [] v = "Region" -> <<"R", "e", "g", "i", "o", "n">>
          [] v = "North" -> <<"N", "o", "r", "t", "h">>
          [] v = "South" -> <<"S", "o", "u", "t", "h">>
          [] v = "R1" -> <<"R", "1">>
          [] v = "2023" -> <<"2", "0", "2", "3">>
          [] v = "2024" -> <<"2", "0", "2", "4">>
          [] v = "12" -> <<"1", "2">>
          [] v = "7" -> <<"7">>
          [] v = "-" -> <<"-">>
          [] v = "Note: see" -> <<"N", "o", "t", "e", ":", " ", "s", "e", "e">>
          [] v = "Table 1" -> <<"T", "a", "b", "l", "e", " ", "1">>
          [] v = "Source" -> <<"S", "o", "u", "r", "c", "e">>
          [] v = "Area_1" -> <<"A", "r", "e", "a", "_", "1">>
          \* a header text of 64 letters
          [] v = "Long" -> [i \in 1..64 |-> "n"]]

Min(a, b) == IF a <= b THEN a ELSE b
Max(a, b) == IF a >= b THEN a ELSE b

\* ws.cell(row=row, column=col).value
CellValue(sheet, row, col) ==
    IF row \in 1..sheet.max_row /\ col \in 1..sheet.max_column
    THEN sheet.cells[row][col] ELSE None

\* ws.merged_cells.ranges that hold the cell; a range is
\* [min_row, max_row, min_col, max_col]
MergedAt(sheet, row, col) ==
    {mr \in sheet.merged : row \in mr.min_row..mr.max_row /\ col \in mr.min_col..mr.max_col}

\* cell values that str(val).replace('\n', ' ').strip() if val else "" changes:
\* the number 0, the empty text, a text with blanks around it and a text with
\* a line break in it
ZeroCell == "0"
EmptyText == ""
PaddedCell == " Area "
TwoLineCell == "North/South"     \* / stands for the line break
FalsyCells == {None, ZeroCell, EmptyText}

\* str(val).replace('\n', ' ').strip() if val else ""
StrOf(val) ==
    CASE val \in FalsyCells -> ""
      [] val = PaddedCell -> "Area"
      [] val = TwoLineCell -> "North South"
      [] OTHER -> val

\* _merged_map[(row, col)][2], as _build_merged_map fills it: the text of the
\* anchor of the range that holds the cell
MergedText(sheet, row, col) ==
    LET mr == CHOOSE m \in MergedAt(sheet, row, col) : TRUE
    IN StrOf(CellValue(sheet, mr.min_row, mr.min_col))

\* _get_cell_value
_get_cell_value(sheet, row, col) ==
    IF MergedAt(sheet, row, col) # {} THEN MergedText(sheet, row, col)
    ELSE StrOf(CellValue(sheet, row, col))

\* _cache_rows: the cache after the call
_cache_rows(sheet, cache, rows, max_col) ==
    [row \in DOMAIN cache \cup rows |->
        IF row \in DOMAIN cache THEN cache[row]
        ELSE [col \in 1..max_col |-> CellValue(sheet, row, col)]]

\* _get_cached_value without the read of the sheet for a column the cached row
\* does not reach
CachedRowOnly(sheet, cache, row, col) ==
    IF row \in DOMAIN cache
    THEN IF col <= Len(cache[row]) THEN cache[row][col] ELSE None
    ELSE CellValue(sheet, row, col)

\* _get_cached_value
_get_cached_value(sheet, cache, row, col) ==
    IF row \in DOMAIN cache /\ col <= Len(cache[row]) THEN cache[row][col]
    ELSE CellValue(sheet, row, col)

\* _get_cached_value_str
_get_cached_value_str(sheet, cache, row, col) ==
    IF MergedAt(sheet, row, col) # {} THEN MergedText(sheet, row, col)
    ELSE StrOf(_get_cached_value(sheet, cache, row, col))

\* the text of a cell, as the steps of infer_structure read it from a sheet
\* they have not cached
CellStr(sheet, row, col) == _get_cell_value(sheet, row, col)

\* the cells with a value among the first upto columns of a row
FilledCols(sheet, row, upto) ==
    {col \in 1..Min(upto, sheet.max_column) : CellValue(sheet, row, col) # None}

\* _count_cells
CountCells(sheet, row) == Cardinality(FilledCols(sheet, row, 49))

\* _classify_sheet
ClassifySheet(sheet) ==
    IF sheet.max_row < 2 \/ sheet.max_column < 2 THEN "EMPTY"
    ELSE
      LET rows == 1..Min(30, sheet.max_row)
          cells(row) == Cardinality(FilledCols(sheet, row, 19))
          total_cells == Cardinality({<<row, col>> \in rows \X (1..19) :
                                         col \in FilledCols(sheet, row, 19)})
          single == Cardinality({row \in rows : cells(row) \in 1..2})
          multi == Cardinality({row \in rows : cells(row) > 2})
          sample_rows == Min(30, sheet.max_row)
          \* density < 0.15, density being total_cells / (sample_rows * 10)
          low_density == 2 * total_cells < 3 * sample_rows
          \* single_ratio > 0.5, single_ratio being single / max(1, single + multi)
          mostly_single == 2 * single > Max(1, single + multi)
      IN IF low_density \/ (mostly_single /\ multi < 5) THEN "METADATA"
         ELSE IF CellValue(sheet, 1, 1) \in MetadataCells /\ multi < 3 THEN "METADATA"
         ELSE IF multi >= 3 THEN "TABULAR" ELSE "METADATA"

\* the counts _detect_all_header_rows takes of one row
RowCounts(sheet, row) ==
    LET counted == {col \in 1..Min(19, sheet.max_column) :
                       /\ CellStr(sheet, row, col) # ""
                       /\ CellStr(sheet, row, col) \notin SuppressedCells}
        years == {col \in counted : CellStr(sheet, row, col) \in CalendarYearCells}
        numeric == {col \in counted \ years : CellStr(sheet, row, col) \in FloatCells}
    IN [year_count |-> Cardinality(years),
        real_numeric_count |-> Cardinality(numeric),
        text_count |-> Cardinality(counted \ (years \cup numeric))]

\* the rows that open a merge over two or more columns
MergeRows(sheet) == {mr.min_row : mr \in {m \in sheet.merged : m.max_col - m.min_col >= 1}}

\* a row the loop of _detect_all_header_rows passes over with "continue": fewer
\* than two cells, or a first cell that starts with table, this or note
SkippedRow(sheet, row_num) ==
    CountCells(sheet, row_num) < 2 \/ CellStr(sheet, row_num, 1) \in SkipPrefixCells

\* is_data_row of _detect_all_header_rows
IsDataCandidate(sheet, row_num) == RowCounts(sheet, row_num).real_numeric_count >= 2

\* is_header_row of _detect_all_header_rows
IsHeaderCandidate(sheet, row_num) ==
    LET n == RowCounts(sheet, row_num)
    IN \/ row_num \in MergeRows(sheet)
       \/ n.year_count >= 2 /\ n.real_numeric_count = 0
       \/ n.real_numeric_count = 0 /\ n.text_count >= 2

\* the loop of _detect_all_header_rows from row_num on; first_header_row is 0
\* while none is found
RECURSIVE HeaderScan(_, _, _)
HeaderScan(sheet, row_num, first_header_row) ==
    IF row_num >= 30
    THEN IF first_header_row # 0 THEN <<first_header_row>> ELSE <<>>
    ELSE IF SkippedRow(sheet, row_num)
    THEN HeaderScan(sheet, row_num + 1, first_header_row)
    ELSE
      LET is_data_row == IsDataCandidate(sheet, row_num)
          is_header_row == IsHeaderCandidate(sheet, row_num)
          first == IF first_header_row = 0 /\ is_header_row
                   THEN row_num ELSE first_header_row
      IN IF first # 0 /\ is_data_row /\ ~is_header_row
         THEN [i \in 1..(row_num - first) |-> first + i - 1]
         ELSE HeaderScan(sheet, row_num + 1, first)

\* _detect_all_header_rows
DetectAllHeaderRows(sheet) == HeaderScan(sheet, 1, 0)

\* _is_data_row
IsDataRow(sheet, row_num) ==
    LET total == Cardinality(FilledCols(sheet, row_num, 19))
        numeric_count == Cardinality({col \in FilledCols(sheet, row_num, 19) :
                             /\ CellValue(sheet, row_num, col) \notin SuppressedCells
                             /\ CellValue(sheet, row_num, col) \in FloatCells})
    IN numeric_count >= 2 \/ (total >= 3 /\ numeric_count >= 1)

SeqMax(s) == CHOOSE m \in Range(s) : \A x \in Range(s) : x <= m

\* a search for the first data row that stays at the row after the header
DataStartAfterHeader(sheet, header_rows) == SeqMax(header_rows) + 1

\* the data_start_row loop of infer_structure
DataStartRow(sheet, header_rows) ==
    LET last_tried == Min(sheet.max_row, SeqMax(header_rows) + 5)
        found == {r \in (SeqMax(header_rows) + 1)..last_tried : IsDataRow(sheet, r)}
    IN IF found = {} THEN Max(SeqMax(header_rows), last_tried) + 1
       ELSE CHOOSE r \in found : \A q \in found : r <= q

\* _find_max_column
FindMaxColumn(sheet, header_rows, data_start_row) ==
    LET rows_to_check == Range(header_rows) \cup
                         data_start_row..(Min(data_start_row + 5, sheet.max_row + 1) - 1)
        filled == UNION {FilledCols(sheet, row, 500) : row \in rows_to_check}
    IN IF filled = {} THEN 1 ELSE CHOOSE m \in filled : \A c \in filled : c <= m

ColUnnamed == <<"c", "o", "l", "_", "u", "n", "n", "a", "m", "e", "d">>
ColPrefix == <<"c", "o", "l", "_">>
ValSuffix == <<"_", "v", "a", "l">>
ColumnPrefix == <<"c", "o", "l", "u", "m", "n", "_">>
ReservedNames ==
    {<<"m", "o", "n", "t", "h">>,
     <<"y", "e", "a", "r">>,
     <<"g", "r", "o", "u", "p">>,
     <<"o", "r", "d", "e", "r">>,
     <<"t", "a", "b", "l", "e">>,
     <<"i", "n", "d", "e", "x">>,
     <<"k", "e", "y">>,
     <<"v", "a", "l", "u", "e">>,
     <<"d", "a", "t", "e">>,
     <<"t", "i", "m", "e">>,
     <<"u", "s", "e", "r">>,
     <<"n", "a", "m", "e">>,
     <<"t", "y", "p", "e">>,
     <<"l", "e", "v", "e", "l">>}

\* _to_db_identifier; of [£$€%] the texts of the model hold only the last
\* and the dollar sign
_to_db_identifier(name) ==
    LET lowered == Lower(name)
        plain == SelectSeq(lowered, LAMBDA c : c \notin {"$", "%"})
        others == {c \in Range(plain) : c \notin LowerLetters \cup DigitChars}
        replaced == SubRuns(plain, others, <<"_">>, FALSE)
        clean == Strip(SubRuns(replaced, {"_"}, <<"_">>, FALSE), {"_"})
        unreserved == IF clean \in ReservedNames THEN clean \o ValSuffix ELSE clean
        lettered == IF unreserved[1] \in DigitChars THEN ColPrefix \o unreserved
                    ELSE unreserved
    IN IF clean = <<>> THEN ColUnnamed
       ELSE SubSeq(lettered, 1, Min(PgIdentLimit, Len(lettered)))

\* a hierarchy that names a column by its last header row only
RECURSIVE LastHeaderOnly(_)
LastHeaderOnly(header_values) ==
    IF header_values = <<>> THEN <<>>
    ELSE IF header_values[Len(header_values)] # ""
    THEN <<header_values[Len(header_values)]>>
    ELSE LastHeaderOnly(SubSeq(header_values, 1, Len(header_values) - 1))

\* "Build unique headers": the non-empty header values, a value that repeats
\* the one kept before it left out
RECURSIVE UniqueHeaders(_)
UniqueHeaders(header_values) ==
    IF header_values = <<>> THEN <<>>
    ELSE
      LET before == UniqueHeaders(SubSeq(header_values, 1, Len(header_values) - 1))
          h == header_values[Len(header_values)]
      IN IF h # "" /\ (before = <<>> \/ h # before[Len(before)])
         THEN Append(before, h) ELSE before

\* '_'.join(unique_headers), character by character
RECURSIVE JoinHeaders(_)
JoinHeaders(unique_headers) ==
    IF unique_headers = <<>> THEN <<>>
    ELSE IF Len(unique_headers) = 1 THEN CellSpelling[unique_headers[1]]
    ELSE CellSpelling[unique_headers[1]] \o <<"_">> \o JoinHeaders(Tail(unique_headers))

\* _build_column_hierarchy: the columns kept, with their header values and
\* their names
BuildColumnHierarchy(sheet, header_rows, data_start_row) ==
    LET max_col == FindMaxColumn(sheet, header_rows, data_start_row)
        has_data_rows == data_start_row..(Min(data_start_row + 5, sheet.max_row + 1) - 1)
        header_values(col) == [i \in DOMAIN header_rows |-> CellStr(sheet, header_rows[i], col)]
        has_data(col) == \E r \in has_data_rows : CellValue(sheet, r, col) # None
        all_headers_empty(col) == \A i \in DOMAIN header_rows : header_values(col)[i] = ""
        kept == {col \in 1..max_col : has_data(col) \/ ~all_headers_empty(col)}
        raw_name(col) ==
            IF UniqueHeaders(header_values(col)) # <<>>
            THEN JoinHeaders(UniqueHeaders(header_values(col)))
            ELSE ColumnPrefix \o <<UpperAlphabet[col]>>        \* get_column_letter
        base == [col \in kept |-> _to_db_identifier(raw_name(col))]
        \* used_names[pg_name] when the loop reaches the column
        used(col) == Cardinality({c \in kept : c < col /\ base[c] = base[col]})
        suffix(col) == <<"_">> \o DigitsOf(used(col))
        pg_name(col) ==
            IF used(col) = 0 THEN base[col]
            ELSE IF Len(base[col]) + Len(suffix(col)) > PgIdentLimit
            THEN SubSeq(base[col], 1, PgIdentLimit - Len(suffix(col))) \o suffix(col)
            ELSE base[col] \o suffix(col)
    IN [col \in kept |-> [col_index |-> col, pg_name |-> pg_name(col),
                          original_headers |-> header_values(col)]]

\* the loop of _find_data_end from row on
RECURSIVE DataEndScan(_, _, _, _)
DataEndScan(sheet, row, data_end, empty_streak) ==
    IF row > Min(sheet.max_row, 10000) THEN data_end
    ELSE
      LET content == FilledCols(sheet, row, 5)
          \* the first cell of the row that starts with a stop word ends the scan
          is_footer == \E col \in content : CellValue(sheet, row, col) \in StopWordCells
      IN IF is_footer THEN data_end
         ELSE IF content # {} THEN DataEndScan(sheet, row + 1, row, 0)
         ELSE IF empty_streak + 1 >= 5 THEN data_end
         ELSE DataEndScan(sheet, row + 1, data_end, empty_streak + 1)

\* a _find_data_end that returns the row before the data
DataEndBeforeStart(sheet, data_start_row) == data_start_row - 1

\* _find_data_end
FindDataEnd(sheet, data_start_row) == DataEndScan(sheet, data_start_row, data_start_row, 0)

TableStructure(sheet_type, header_rows, data_start_row, data_end_row, columns, error_message) ==
    [sheet_type |-> sheet_type, header_rows |-> header_rows,
     data_start_row |-> data_start_row, data_end_row |-> data_end_row,
     columns |-> columns, error_message |-> error_message]

NoWorksheet == [max_row |-> 0, max_column |-> 0, cells |-> <<>>, merged |-> {}]

\* extract_data has not been called
NotExtracted == [called |-> FALSE]

\* FileExtractor._row_cache after construction: no row is cached
NoRowCache == <<>>
NoRead == [op |-> "none"]

\* FileExtractor._structure before infer_structure has returned
NoStructure == TableStructure("NONE", <<>>, 0, 0, <<>>, None)

Unrecognised(message) == TableStructure("UNRECOGNISED", <<>>, 0, 0, <<>>, message)

\* the steps of infer_structure at which a read of the worksheet can raise
ExtractSteps == <<"classify", "headers", "data_start", "columns", "data_end", "types">>

\* infer_structure when the step failAt raises, if it is reached ("none": no
\* step raises): whether an exception left the method, the step that raised,
\* and the TableStructure returned.  Only the steps after _classify_sheet are
\* inside the try block.
infer_structure(sheet, failAt) ==
    LET escaped == [raised |-> TRUE, failed |-> "classify", structure |-> NoStructure]
        caught(step) == [raised |-> FALSE, failed |-> step, structure |-> Unrecognised(step)]
        sheet_type == ClassifySheet(sheet)
        header_rows == DetectAllHeaderRows(sheet)
        data_start_row == DataStartRow(sheet, header_rows)
        columns == BuildColumnHierarchy(sheet, header_rows, data_start_row)
        data_end_row == FindDataEnd(sheet, data_start_row)
    IN IF failAt = "classify" THEN escaped
       ELSE IF sheet_type # "TABULAR"
       THEN [raised |-> FALSE, failed |-> "none",
             structure |-> TableStructure(sheet_type, <<>>, 0, 0, <<>>, None)]
       ELSE IF failAt = "headers" THEN caught("headers")
       ELSE IF header_rows = <<>> THEN caught("Could not detect header rows")
       ELSE IF failAt = "data_start" THEN caught("data_start")
       ELSE IF failAt = "columns" THEN caught("columns")
       ELSE IF DOMAIN columns = {} THEN caught("No data columns detected")
       ELSE IF failAt = "data_end" THEN caught("data_end")
       ELSE IF failAt = "types" THEN caught("types")
       ELSE [raised |-> FALSE, failed |-> "none",
             structure |-> TableStructure("TABULAR", header_rows, data_start_row,
                                          data_end_row, columns, None)]

\* TableStructure.is_valid
IsValid(st) == st.sheet_type = "TABULAR" /\ st.error_message = None

\* list(structure.columns.keys())[:n]: the first n column positions
FirstKeys(st, n) ==
    {col \in DOMAIN st.columns : Cardinality({c \in DOMAIN st.columns : c < col}) < n}

\* a cell that starts with an asterisk and is longer than 50 characters
LongStarCells == {}

\* "Check for footer" of extract_data: a cell of the first five columns of
\* the structure starts with a stop word, or is a long starred note
IsFooterRow(sheet, st, row_num) ==
    \E col \in FirstKeys(st, 5) :
        /\ CellValue(sheet, row_num, col) # None
        /\ CellValue(sheet, row_num, col) \in StopWordCells \cup LongStarCells

\* str(value or '').strip().lower() without superscripts and commas
HeaderKey(v) == IF v = None THEN "" ELSE v

\* "Skip duplicate header rows": at least two of the first three columns of
\* the structure repeat the text the first header row has there
IsDuplicateHeader(sheet, st, row_num) ==
    LET first_header_row == st.header_rows[1]
        matching == {col \in FirstKeys(st, 3) :
                        /\ HeaderKey(CellValue(sheet, row_num, col)) # ""
                        /\ HeaderKey(CellValue(sheet, first_header_row, col)) # ""
                        /\ HeaderKey(CellValue(sheet, row_num, col))
                             = HeaderKey(CellValue(sheet, first_header_row, col))}
    IN Cardinality(matching) >= 2

\* row_data of extract_data: a dict by pg_name, so of two columns with one
\* name the later one stays; a suppressed value is read as None
RowData(sheet, st, row_num) ==
    LET names == {st.columns[col].pg_name : col \in DOMAIN st.columns}
        from(name) == CHOOSE col \in DOMAIN st.columns :
                         /\ st.columns[col].pg_name = name
                         /\ \A c \in DOMAIN st.columns :
                               st.columns[c].pg_name = name => c <= col
    IN [name \in names |->
           IF CellValue(sheet, row_num, from(name)) \in SuppressedCells THEN None
           ELSE CellValue(sheet, row_num, from(name))]

\* the loop of extract_data from row_num on
RECURSIVE ExtractRows(_, _, _)
ExtractRows(sheet, st, row_num) ==
    IF row_num > st.data_end_row THEN <<>>
    ELSE IF \A col \in FirstKeys(st, 5) : CellValue(sheet, row_num, col) = None
    THEN ExtractRows(sheet, st, row_num + 1)
    ELSE IF IsFooterRow(sheet, st, row_num) THEN <<>>
    ELSE IF IsDuplicateHeader(sheet, st, row_num)
    THEN ExtractRows(sheet, st, row_num + 1)
    ELSE <<[row |-> row_num, data |-> RowData(sheet, st, row_num)]>>
         \o ExtractRows(sheet, st, row_num + 1)

\* extract_data, given the structure infer_structure returned
extract_data(sheet, st) ==
    IF ~IsValid(st) THEN <<>> ELSE ExtractRows(sheet, st, st.data_start_row)

-----------------------------------------------------------------------------
(* Inputs *)

\* the name pandas gives a CSV column whose header is empty
UnnamedHeader == <<"U", "n", "n", "a", "m", "e", "d", ":", " ", "0">>

\* header texts of the input files
HeaderPool == << <<"A">>, <<"a">>, <<"B">>, <<"C">>, UnnamedHeader >>

\* the cell text of a column: one text per header, so that a row tells which
\* source column each of its cells came from
CellText(header) == <<"v1", "v2", "v3", "v4", "v5">>[IndexOf(HeaderPool, header)]

\* the DataFrame with these headers and n equal rows
Frame(cols, n) ==
    [columns |-> cols,
     data |-> [r \in 1..n |-> [j \in 1..Len(cols) |-> CellText(cols[j])]]]

\* the files of the publication: the first release, a release without rows, a
\* release with two more columns and two rows, and a release with two headers
\* that sanitize to one name
DataFrames ==
    {Frame(<< <<"A">> >>, 1),
     Frame(<< <<"A">> >>, 0),
     Frame(<< <<"A">>, <<"B">>, <<"C">> >>, 2),
     Frame(<< <<"A">>, <<"a">> >>, 1)}

\* the files the bootstrap is run on: the first release, a file without rows
\* and a CSV file whose header line is empty
FirstReleases ==
    {Frame(<< <<"A">> >>, 1), Frame(<< <<"A">> >>, 0), Frame(<<UnnamedHeader>>, 1)}

\* the name and the description an enrichment suggests
SemanticName == <<"x">>
DescriptionText == "desc"

\* what enrich_sheet may return about these columns: the fallback, or a reply
\* that renames the columns of R and describes the columns of D
EnrichReplies(columns) ==
    {FallbackEnrichment(columns)} \cup
    {[columns |-> [c \in columns |-> IF c \in R THEN SemanticName ELSE c],
      descriptions |-> [n \in {IF c \in R THEN SemanticName ELSE c : c \in D} |->
                           DescriptionText]] :
        R \in SUBSET columns, D \in SUBSET columns}

\* the text of the descriptions of a later call of the LLM
LaterDescription == "later desc"

\* a reply of a later call: the descriptions it holds have the later text
Redescribed(enriched) ==
    [enriched EXCEPT !.descriptions =
        [n \in DOMAIN enriched.descriptions |->
            IF enriched.descriptions[n] = "" THEN "" ELSE LaterDescription]]

-----------------------------------------------------------------------------
(* State machine of the loader *)

SheetMapping == [column_mappings |-> column_mappings,
                 column_descriptions |-> column_descriptions,
                 mappings_version |-> mappings_version]

NoMapping == [column_mappings |-> <<>>, column_descriptions |-> <<>>,
              mappings_version |-> 1]

NoFrame == [columns |-> <<>>, data |-> <<>>]

\* the pairs (sanitized source column, canonical name) and the column names a
\* successful load has written
Writes(res) ==
    [pairs |-> {<<res.sources[j], res.canonicals[j]>> : j \in DOMAIN res.sources},
     cols |-> Range(res.copy_columns)]

\* what a command leaves in last
Did(op, df, period, res, repeat, same_input, force) ==
    [op |-> op, df |-> df, period |-> period, outcome |-> res.outcome,
     repeat |-> repeat, same_input |-> same_input, force |-> force,
     pre_table |-> table, pre_sm |-> SheetMapping,
     ddl_columns |-> res.ddl_columns, copy_columns |-> res.copy_columns,
     sources |-> res.sources, canonicals |-> res.canonicals, data |-> res.data,
     cause |-> res.cause]

NoResult(outcome) ==
    [outcome |-> outcome, ddl_columns |-> <<>>, copy_columns |-> <<>>,
     sources |-> <<>>, canonicals |-> <<>>, data |-> <<>>, cause |-> "none"]

\* the last command loaded the same file for the same period, and did not raise
Reloads(df, period) ==
    /\ last.op \in {"bootstrap", "load"}
    /\ last.outcome # "raised"
    /\ last.df = df
    /\ last.period = period

\* no sheet mapping is saved and the table is absent
LoadInit ==
    /\ column_mappings = <<>>
    /\ column_descriptions = <<>>
    /\ mappings_version = 1
    /\ saved = FALSE
    /\ table = NoTable
    /\ written = [pairs |-> {}, cols |-> {}]
    /\ last = [op |-> "init", df |-> NoFrame, period |-> NoPeriod,
               outcome |-> "none", repeat |-> FALSE, same_input |-> FALSE,
               force |-> FALSE, pre_table |-> NoTable, pre_sm |-> NoMapping,
               ddl_columns |-> <<>>, copy_columns |-> <<>>,
               sources |-> <<>>, canonicals |-> <<>>, data |-> <<>>, cause |-> "none"]
    /\ ops = 0

\* _enrich_and_load of the bootstrap: the first load of the sheet, with the
\* names enrich_sheet suggests (identity names when enrich is off); when rows
\* were loaded, the SheetMapping built from what the load learned is saved
Bootstrap ==
    /\ ops < MaxOps
    /\ ~saved
    /\ \E df \in FirstReleases, period \in Periods \cup {NoPeriod}, enrich \in BOOLEAN,
          failAt \in FailPoints :
       \E enriched \in IF enrich
                        THEN EnrichReplies({sanitize_name(c) : c \in Range(df.columns)})
                        ELSE {FallbackEnrichment({})} :
       \E res \in {LoadFrame(df, period,
                             IF enrich THEN enriched.columns
                             ELSE [c \in {sanitize_name(c) : c \in Range(df.columns)} |-> c],
                             table, failAt, NoExtractorTypes)} :
          /\ IF res.rows_loaded > 0
             THEN /\ column_mappings' = res.learned_mappings
                  /\ column_descriptions' = IF enrich THEN enriched.descriptions ELSE <<>>
                  /\ mappings_version' = 1
                  /\ saved' = TRUE
             ELSE UNCHANGED <<column_mappings, column_descriptions, mappings_version, saved>>
          /\ table' = res.table
          /\ last' = Did("bootstrap", df, period, res, Reloads(df, period), FALSE, FALSE)
          /\ written' =
               IF res.outcome = "loaded"
               THEN [pairs |-> written.pairs \cup Writes(res).pairs,
                     cols |-> written.cols \cup Writes(res).cols]
               ELSE written
    /\ ops' = ops + 1
    /\ UNCHANGED <<extractVars, batchVars, restVars>>

\* one load of load_period_files: load_file / load_sheet with
\* column_mappings=sm.column_mappings and sheet_mapping=sm
Load ==
    /\ ops < MaxOps
    /\ saved
    /\ \E df \in DataFrames, period \in Periods \cup {NoPeriod}, failAt \in FailPoints :
       \E call \in {load_dataframe(df, period, SheetMapping, table, failAt,
                                    NoExtractorTypes)} :
          /\ column_mappings' = call.sm.column_mappings
          /\ column_descriptions' = call.sm.column_descriptions
          /\ mappings_version' = call.sm.mappings_version
          /\ table' = call.res.table
          /\ last' = Did("load", df, period, call.res, Reloads(df, period),
                         last.op = "load" /\ last.df = df, FALSE)
          /\ written' =
               IF call.res.outcome = "loaded"
               THEN [pairs |-> written.pairs \cup Writes(call.res).pairs,
                     cols |-> written.cols \cup Writes(call.res).cols]
               ELSE written
    /\ ops' = ops + 1
    /\ UNCHANGED <<saved, extractVars, batchVars, restVars>>

\* one run of the enrich command
Enrich ==
    /\ ops < MaxOps
    /\ saved
    /\ \E force \in BOOLEAN, dry_run \in BOOLEAN :
       \E enriched \in IF CallsEnrichSheet(SheetMapping, table, force, dry_run)
                        THEN {Redescribed(r) :
                                r \in EnrichReplies(LookedUp(SheetMapping, table, force))}
                        ELSE {FallbackEnrichment({})} :
       \E sm \in {enrich_command(SheetMapping, table, force, dry_run, enriched)} :
          /\ column_mappings' = sm.column_mappings
          /\ column_descriptions' = sm.column_descriptions
          /\ mappings_version' = sm.mappings_version
          /\ last' = Did("enrich", NoFrame, NoPeriod,
                         NoResult(IF sm = SheetMapping THEN "none" ELSE "enriched"),
                         FALSE, FALSE, force)
    /\ ops' = ops + 1
    /\ UNCHANGED <<saved, table, written, extractVars, batchVars, restVars>>

\* no worksheet is open and no batch is running
IdleExtract ==
    /\ ws = NoWorksheet
    /\ structure = NoStructure
    /\ fault = "idle"
    /\ extracted = NotExtracted
    /\ row_cache = NoRowCache
    /\ cell_read = NoRead
IdleBatch ==
    /\ batch = <<>>
    /\ driver = "none"
    /\ pos = [file |-> 1, sheet |-> 1]
    /\ processed = {}
    /\ aborted = FALSE

\* no worker has a load call open
Workers == {1, 2}
NoTxn == [pc |-> "idle", period |-> NoPeriod, new_column |-> FALSE, load |-> 0,
          existing_cols |-> {}, snapshot |-> {}, deleted |-> {}, inserted |-> {},
          added_cols |-> {}, lock |-> "none"]
IdleConc ==
    /\ pg = [cols |-> {}, rows |-> {}]
    /\ txn = [w \in Workers |-> NoTxn]
    /\ nloads = 0
\* no call of enrich_sheet is modelled
\* enrich_sheet was not called yet
NotCalled == [called |-> FALSE]
IdleEnrich == llm_call = "none" /\ enrichment = NotCalled
\* no text was parsed for its period yet
NotParsed == [parsed |-> FALSE]
IdlePeriod == filename = <<>> /\ periods = NotParsed
NotInferred == "none"
IdleTypes == column = [name |-> <<>>, cells |-> <<>>] /\ inferred_type = NotInferred
IdleRest == IdleConc /\ gdf = [columns |-> <<>>, values |-> <<>>]
                     /\ grain_info = [grain |-> "none", grain_column |-> <<>>, confidence |-> 0]
                     /\ IdleEnrich /\ IdlePeriod /\ IdleTypes

Init == LoadInit /\ IdleExtract /\ IdleBatch /\ IdleRest
Next == Bootstrap \/ Load \/ Enrich
Spec == Init /\ [][Next]_vars

-----------------------------------------------------------------------------
(* Properties of the loader *)

IsLoad == last.op \in {"bootstrap", "load"}

\* C1: in one load_dataframe call, the ordered column list of the CREATE TABLE
\* definitions and ADD COLUMN checks is, name for name and in the same order,
\* the ordered column list of the COPY statement.
C1_SchemaCopyParity ==
    (IsLoad /\ last.copy_columns # <<>>) => last.copy_columns = last.ddl_columns

\* a load with a period wrote a deduplicated pair of columns and the period
C1_Witness ==
    /\ last.op = "load"
    /\ last.outcome = "loaded"
    /\ Len(last.copy_columns) = 3
    /\ last.copy_columns[2] = <<"a", "_", "1">>
    /\ last.copy_columns[3] = PeriodCol

\* C2: loading the same file for the same period twice in succession leaves
\* the rows the first load left: no row is duplicated.
C2_IdempotentReload ==
    (IsLoad /\ last.repeat /\ last.period # NoPeriod /\ last.outcome # "raised")
        => table.rows = last.pre_table.rows

\* a two-row file was loaded twice for one period
C2_Witness ==
    /\ last.op = "load"
    /\ last.repeat
    /\ last.outcome = "loaded"
    /\ last.period # NoPeriod
    /\ Len(last.data) = 2
    /\ BagCardinality(table.rows) >= 2

NewToMapping == {sanitize_name(c) : c \in Range(last.df.columns)}
                    \ DOMAIN last.pre_sm.column_mappings

\* what C4 says of a load from which columns are new
DriftRecorded ==
    last.op = "load" =>
        /\ NewToMapping # {} =>
              /\ mappings_version = last.pre_sm.mappings_version + 1
              /\ \A X \in NewToMapping :
                    /\ X \in DOMAIN column_mappings
                    /\ column_mappings[X] = X
                    /\ X \in DOMAIN column_descriptions
                    /\ column_descriptions[X] = ""
        /\ last.same_input => mappings_version = last.pre_sm.mappings_version

\* C4: a load whose input has a column X absent from the saved mapping raises
\* mappings_version by exactly 1, however many columns are new, and adds
\* X -> X with an empty description; loading the same input again does not
\* change mappings_version.
C4_DriftMonotonic == DriftRecorded

\* C4 holds of every load on a saved mapping that names a column
C4_HoldsOnNonEmptyMapping ==
    DOMAIN last.pre_sm.column_mappings # {} => DriftRecorded

\* the input whose two new columns the load before had recorded is loaded again
C4_Recorded ==
    /\ last.op = "load"
    /\ last.same_input
    /\ last.pre_sm.mappings_version = 2
    /\ mappings_version = 2
    /\ {<<"b">>, <<"c">>} \subseteq DOMAIN column_mappings
    /\ column_descriptions[<<"b">>] = ""

\* the columns of the saved mapping the input of the last load does not have
MissingFromInput == DOMAIN last.pre_sm.column_mappings
                        \ {sanitize_name(c) : c \in Range(last.df.columns)}

\* C12: a load whose input lacks columns recorded in the saved mapping and has
\* no new column leaves mappings_version, column_mappings and
\* column_descriptions unchanged, raises no error (it raises only when the frame
\* repeats a name or a statement of the write phase fails), and removes no
\* column from the destination table.
C12_MissingColumnsLogOnly ==
    (last.op = "load" /\ MissingFromInput # {} /\ NewToMapping = {}) =>
        /\ SheetMapping = last.pre_sm
        /\ last.cause = "none" => last.outcome # "raised"
        /\ table.exists = last.pre_table.exists
        /\ Range(last.pre_table.cols) \subseteq Range(table.cols)

\* a release without two of the columns the mapping and the table have was loaded
C12_Witness ==
    /\ last.op = "load"
    /\ last.outcome = "loaded"
    /\ Cardinality(MissingFromInput) = 2
    /\ NewToMapping = {}
    /\ MissingFromInput \subseteq Range(table.cols)

\* C5: when a statement of the write phase fails (create, add column, delete,
\* bulk insert, commit), the table's schema and rows are what they were before
\* the call.
C5_WriteAtomic ==
    (IsLoad /\ last.outcome = "raised") => table = last.pre_table

\* a load that failed after its COPY had been sent to a table holding rows
C5_Witness ==
    /\ last.op = "load"
    /\ last.outcome = "raised"
    /\ last.copy_columns # <<>>
    /\ last.pre_table.exists
    /\ last.pre_table.rows # EmptyBag
    /\ Range(last.ddl_columns) \ Range(last.pre_table.cols) # {}

HasPeriod(r, period) == PeriodCol \in DOMAIN r /\ r[PeriodCol] = period

\* C6: a successful load for period p into a table that has a period column
\* leaves the rows of every other period unchanged, and afterwards the rows
\* with period p are exactly the rows of this batch, each carrying period p.
C6_ReplacesOnlyThePeriod ==
    (/\ IsLoad
     /\ last.outcome = "loaded"
     /\ last.period # NoPeriod
     /\ PeriodCol \in Range(last.pre_table.cols))
    => LET sent == RowsToBag(last.copy_columns, last.data)
       IN /\ \A r \in DOMAIN table.rows \cup DOMAIN last.pre_table.rows :
                ~HasPeriod(r, last.period)
                    => CopiesIn(r, table.rows) = CopiesIn(r, last.pre_table.rows)
          /\ \A r \in DOMAIN table.rows \cup DOMAIN sent :
                HasPeriod(r, last.period)
                    => CopiesIn(r, table.rows) = CopiesIn(r, sent)
          /\ \A r \in DOMAIN sent : HasPeriod(r, last.period)

\* a load for a period replaced that period's rows in a table that also holds
\* rows of another period
C6_Witness ==
    /\ last.op = "load"
    /\ last.outcome = "loaded"
    /\ last.period # NoPeriod
    /\ \E r \in DOMAIN last.pre_table.rows : HasPeriod(r, last.period)
    /\ \E r \in DOMAIN last.pre_table.rows :
          PeriodCol \in DOMAIN r /\ r[PeriodCol] # last.period
    /\ table.rows # last.pre_table.rows

\* C7: once a sanitized source column has been written under a canonical
\* name, every later load writes it under the same name, for any interleaving
\* of loads, drift events and enrich runs.
C7_CanonicalNamesStable ==
    \A p, q \in written.pairs : p[1] = q[1] => p[2] = q[2]

\* a load wrote, under the name an enrich run gave it, a source column that an
\* earlier load had written under another name
C7_Renamed ==
    /\ last.op = "load"
    /\ last.outcome = "loaded"
    /\ \E j \in DOMAIN last.sources :
          \E p \in written.pairs :
             /\ p[1] = last.sources[j]
             /\ p[2] # last.canonicals[j]
             /\ p[2] \in Range(last.pre_table.cols)

\* the columns whose description was empty before the last command and is
\* not empty after it
FilledByLast ==
    {c \in DOMAIN last.pre_sm.column_descriptions :
        /\ last.pre_sm.column_descriptions[c] = ""
        /\ Get(column_descriptions, c, "") # ""}

\* C18: the enrich command without --force only fills empty descriptions: a
\* column description that is not empty before the run is unchanged after it,
\* and mappings_version is increased, by exactly 1, only if at least one
\* description was filled in that run.
C18_EnrichFillsEmptyOnly ==
    (last.op = "enrich" /\ ~last.force) =>
        /\ \A c \in DOMAIN last.pre_sm.column_descriptions :
              last.pre_sm.column_descriptions[c] # "" =>
                  /\ c \in DOMAIN column_descriptions
                  /\ column_descriptions[c] = last.pre_sm.column_descriptions[c]
        /\ mappings_version # last.pre_sm.mappings_version =>
              /\ mappings_version = last.pre_sm.mappings_version + 1
              /\ FilledByLast # {}

\* a run without --force filled one description and left the description of
\* another column as it was
C18_Witness ==
    /\ last.op = "enrich"
    /\ ~last.force
    /\ FilledByLast # {}
    /\ \E c \in DOMAIN column_descriptions :
          /\ column_descriptions[c] = DescriptionText
          /\ last.pre_sm.column_descriptions[c] = DescriptionText
    /\ mappings_version = last.pre_sm.mappings_version + 1

-----------------------------------------------------------------------------
(* One call of load_dataframe, as load_sheet and load_file make it: the     *)
(* frame, the saved sheet mapping and the extractor types vary.             *)

\* the source columns: two headers that sanitize to one name, a name that ends
\* in _1, another name, and the name pandas gives a header that is empty
SourceHeaders == << <<"A">>, <<"a">>, <<"a", "_", "1">>, <<"b">>, UnnamedHeader >>

\* the cell text of a source column
SourceText(header) == <<"v1", "v2", "v3", "v4", "v5">>[IndexOf(SourceHeaders, header)]

MaxSourceColumns == 3    \* columns of a frame

\* the frames: up to MaxSourceColumns different source columns and one row;
\* the cells of the columns of empty are missing
SourceFrames ==
    {[columns |-> cols,
      data |-> << [j \in 1..Len(cols) |-> IF j \in empty THEN NaN ELSE SourceText(cols[j])] >>] :
        cols \in {c \in UNION {[1..n -> Range(SourceHeaders)] : n \in 1..MaxSourceColumns} :
                     IsInjective(c)},
        empty \in {{}, {1}, {2}}}

\* the saved sheet mappings: none of a column, the identity of a, a renamed,
\* a and b renamed to one name, and a renamed to b
SavedMappings ==
    {[column_mappings |-> cm, column_descriptions |-> [c \in DOMAIN cm |-> ""],
      mappings_version |-> 1] :
        cm \in {<<>>,
                 [c \in {<<"a">>} |-> <<"a">>],
                 [c \in {<<"a">>} |-> <<"x">>],
                 [c \in {<<"a">>, <<"b">>} |-> <<"x">>],
                 [c \in {<<"a">>, <<"b">>} |-> <<"b">>]}}

\* the types the extractor inferred for the columns of a frame, by column
\* name; load_sheet passes them for a frame whose columns are the extractor's
\* identifiers, load_file passes none
ExtractorTypes(df) ==
    {NoExtractorTypes} \cup
    IF \A c \in Range(df.columns) : sanitize_name(c) = c
    THEN [Range(df.columns) -> {"INTEGER", "VARCHAR(255)"}]
    ELSE {}

LoadSheetInit ==
    /\ \E sm \in SavedMappings :
          /\ column_mappings = sm.column_mappings
          /\ column_descriptions = sm.column_descriptions
          /\ mappings_version = sm.mappings_version
    /\ saved = TRUE
    /\ table = NoTable
    /\ ops = 0
    /\ last = [op |-> "init"]
    /\ written = [pairs |-> {}, cols |-> {}]

\* load_sheet and load_file: one call of load_dataframe with the saved sheet
\* mapping, its column_mappings dict and the extractor types
LoadSheet ==
    /\ ops = 0
    /\ \E df \in SourceFrames, period \in {NoPeriod, "2024-11"} :
       \E extractor_types \in ExtractorTypes(df) :
       \E call \in {load_dataframe(df, period, SheetMapping, table, "none",
                                    extractor_types)} :
          /\ column_mappings' = call.sm.column_mappings
          /\ column_descriptions' = call.sm.column_descriptions
          /\ mappings_version' = call.sm.mappings_version
          /\ table' = call.res.table
          /\ last' = Did("load_sheet", df, period, call.res, FALSE, FALSE, FALSE)
                        @@ [learned_mappings |-> call.res.learned_mappings,
                            column_types |-> call.res.column_types,
                            extractor_types |-> extractor_types,
                            final |-> call.res.final]
          /\ written' =
               IF call.res.outcome = "loaded"
               THEN [pairs |-> Writes(call.res).pairs, cols |-> Writes(call.res).cols]
               ELSE written
    /\ ops' = 1
    /\ UNCHANGED <<saved, extractVars, batchVars, restVars>>

InitLoadSheet == LoadSheetInit /\ IdleExtract /\ IdleBatch /\ IdleRest
NextLoadSheet == LoadSheet
SpecLoadSheet == InitLoadSheet /\ [][NextLoadSheet]_vars

\* C25: after renaming and numeric-suffix de-duplication in load_dataframe,
\* the final column list used for DDL and COPY contains no repeated name, for
\* every list of source columns and every mapping.
C25_FinalColumnsDistinct ==
    last.op = "load_sheet" => IsInjective(last.final)

\* a frame with the headers A, a and a_1 was given: the final column list
\* names a_1 twice and the load raised
C25_SuffixCollides ==
    /\ last.op = "load_sheet"
    /\ last.df.columns = << <<"A">>, <<"a">>, <<"a", "_", "1">> >>
    /\ last.final = << <<"a">>, <<"a", "_", "1">>, <<"a", "_", "1">> >>
    /\ last.outcome = "raised"

\* the positions of the columns of df that are fully empty or unnamed
DroppedColumns(df) ==
    {j \in DOMAIN df.columns :
        \/ \A r \in DOMAIN df.data : df.data[r][j] = NaN
        \/ StartsWith(Lower(df.columns[j]), UnnamedStr)}

\* the sanitized names of the columns of df at these positions
SanitizedAt(df, positions) == {sanitize_name(df.columns[j]) : j \in positions}

\* C27: fully-empty columns and unnamed columns are dropped before column
\* resolution: such a column is never written to the destination and never
\* counts as a new column, so it causes no identity entry in the sheet mapping
\* and no mappings_version bump.
C27_DroppedColumnsLeaveNoTrace ==
    last.op = "load_sheet" =>
        LET dropped == DroppedColumns(last.df)
            kept == DOMAIN last.df.columns \ dropped
            only_dropped == SanitizedAt(last.df, dropped) \ SanitizedAt(last.df, kept)
        IN /\ last.outcome = "loaded" => Len(last.sources) = Cardinality(kept)
           /\ \A name \in only_dropped :
                 /\ name \notin Range(last.sources)
                 /\ name \notin DOMAIN last.pre_sm.column_mappings =>
                       name \notin DOMAIN column_mappings
           /\ SanitizedAt(last.df, kept) \subseteq DOMAIN last.pre_sm.column_mappings =>
                 mappings_version = last.pre_sm.mappings_version

\* a frame with the columns a and b, b without a value, was loaded with a
\* saved mapping of a: b is not in the table, and the mapping has the entry
\* b -> b and the next version
C27_EmptyColumnRecorded ==
    /\ last.op = "load_sheet"
    /\ last.outcome = "loaded"
    /\ last.df.columns = << <<"a">>, <<"b">> >>
    /\ DroppedColumns(last.df) = {2}
    /\ DOMAIN last.pre_sm.column_mappings = {<<"a">>}
    /\ <<"b">> \notin Range(table.cols)
    /\ <<"b">> \in DOMAIN column_mappings
    /\ mappings_version = last.pre_sm.mappings_version + 1

\* what holds of the columns that are dropped: none is written
DroppedColumnsNotWritten ==
    last.op = "load_sheet" =>
        LET dropped == DroppedColumns(last.df)
            kept == DOMAIN last.df.columns \ dropped
        IN /\ last.outcome = "loaded" => Len(last.sources) = Cardinality(kept)
           /\ \A name \in SanitizedAt(last.df, dropped) \ SanitizedAt(last.df, kept) :
                 name \notin Range(last.sources)

\* C28: type reuse: for every final column that comes from an extracted source
\* column, the storage type of the DDL and of the returned column_types is the
\* type the extractor inferred for that source column, also when the mapping
\* renames the column; a type inferred for one source column is never applied
\* to another column.
C28_TypeReuse ==
    (/\ last.op = "load_sheet"
     /\ last.outcome = "loaded"
     /\ last.extractor_types # NoExtractorTypes) =>
        \A i \in DOMAIN last.sources :
            last.column_types[last.final[i]] = last.extractor_types[last.sources[i]]

\* the mapping renames a to x and the extractor typed a INTEGER: x gets the
\* type that is inferred from the values of the frame
C28_RenamedColumnLosesType ==
    /\ last.op = "load_sheet"
    /\ last.outcome = "loaded"
    /\ last.extractor_types # NoExtractorTypes
    /\ \E i \in DOMAIN last.sources :
          /\ last.sources[i] = <<"a">>
          /\ last.final[i] = <<"x">>
          /\ last.extractor_types[<<"a">>] = "INTEGER"
          /\ last.column_types[<<"x">>] # "INTEGER"

\* the mapping renames a to b and the frame has a column b as well: the values
\* of a are stored under the type the extractor inferred for b
C28_TypeOfAnotherColumn ==
    /\ last.op = "load_sheet"
    /\ last.outcome = "loaded"
    /\ last.extractor_types # NoExtractorTypes
    /\ \E i \in DOMAIN last.sources :
          /\ last.sources[i] = <<"a">>
          /\ last.final[i] = <<"b">>
          /\ <<"b">> \in DOMAIN last.extractor_types
          /\ last.extractor_types[<<"a">>] # last.extractor_types[<<"b">>]
          /\ last.column_types[<<"b">>] = last.extractor_types[<<"b">>]

\* what holds: a column that keeps its name gets the extractor's type of it
TypeReuseOfUnrenamedColumns ==
    (/\ last.op = "load_sheet"
     /\ last.outcome = "loaded"
     /\ last.extractor_types # NoExtractorTypes) =>
        \A i \in DOMAIN last.sources :
            last.final[i] = last.sources[i] =>
                last.column_types[last.final[i]] = last.extractor_types[last.sources[i]]

\* C29: the learned mapping returned by a successful load has exactly one entry
\* per written source column, keyed by its sanitized name, and its value is the
\* destination column under which the values of that column were written; so
\* the values of the mapping and the period column are the keys of the
\* returned column_types.
C29_LearnedMappingIsWrittenColumns ==
    (last.op = "load_sheet" /\ last.outcome = "loaded") =>
        /\ Cardinality(DOMAIN last.learned_mappings) = Len(last.sources)
        /\ \A i \in DOMAIN last.sources :
              /\ last.sources[i] \in DOMAIN last.learned_mappings
              /\ last.learned_mappings[last.sources[i]] = last.final[i]
        /\ DOMAIN last.column_types \ {PeriodCol} =
              {last.learned_mappings[k] : k \in DOMAIN last.learned_mappings} \ {PeriodCol}

\* the mapping renames a and b to x: the values of b were written to x_1 and
\* the learned mapping says b -> x
C29_LearnedNameNotWritten ==
    /\ last.op = "load_sheet"
    /\ last.outcome = "loaded"
    /\ \E i \in DOMAIN last.sources :
          /\ last.sources[i] = <<"b">>
          /\ last.final[i] = <<"x", "_", "1">>
          /\ last.learned_mappings[<<"b">>] = <<"x">>

\* the source columns A and a were both written and the learned mapping has
\* one entry for the two
C29_TwoColumnsOneEntry ==
    /\ last.op = "load_sheet"
    /\ last.outcome = "loaded"
    /\ Len(last.sources) = 2
    /\ Cardinality(DOMAIN last.learned_mappings) = 1

\* what holds: every written source column has an entry, whose value is the
\* name the mapping gives it before the duplicates are suffixed
LearnedMappingIsCanonicalNames ==
    (last.op = "load_sheet" /\ last.outcome = "loaded") =>
        /\ DOMAIN last.learned_mappings = Range(last.sources)
        /\ \A i \in DOMAIN last.sources :
              last.learned_mappings[last.sources[i]] = last.canonicals[i]

-----------------------------------------------------------------------------
(* State machine of the extractor: one FileExtractor and its worksheet *)

MaxSheetRows == 4   \* rows of a worksheet

\* the rows of the worksheets: an empty row, a header of texts, a header of
\* years, two data rows, a footer and a title row
RowPatterns ==
    {<<None, None, None>>,
     <<"Area", "Code", "Beds">>,
     <<"Area", "2023", "2024">>,
     <<"R1", "12", "7">>,
     <<"R1", "-", "12">>,
     <<"Note: see", None, None>>,
     <<"Table 1", "Area", "Code">>}

Worksheet(cells) ==
    [max_row |-> Len(cells), max_column |-> Len(cells[1]), cells |-> cells, merged |-> {}]

Worksheets == {Worksheet(cells) : cells \in UNION {[1..n -> RowPatterns] : n \in 1..MaxSheetRows}}

MaxGapRows == 6     \* rows between the header rows and the numeric rows
MaxDataRows == 3    \* numeric rows under a header

\* a sheet with the columns North and South: under a parent label Region that
\* is repeated over them or merged across them, or under no parent; with or
\* without a leading label column, whose cell in the parent row is lead; gap
\* rows that are empty or hold suppressed values, then ndata numeric rows
HeaderSheet(label, parent, lead, gap, fill, ndata) ==
    LET pre(v) == IF label THEN <<v>> ELSE <<>>
        first == IF label THEN 2 ELSE 1
        parentRow == pre(lead) \o (IF parent = "merged" THEN <<"Region", None>>
                                   ELSE <<"Region", "Region">>)
        childRow == pre("Area") \o <<"North", "South">>
        gapRow == IF fill = "empty" THEN pre(None) \o <<None, None>>
                  ELSE pre("R1") \o <<"-", "-">>
        dataRow == pre("R1") \o <<"12", "7">>
        header == IF parent = "none" THEN <<childRow>> ELSE <<parentRow, childRow>>
        cells == header \o [i \in 1..gap |-> gapRow] \o [i \in 1..ndata |-> dataRow]
    IN [max_row |-> Len(cells), max_column |-> Len(cells[1]), cells |-> cells,
        merged |-> IF parent = "merged"
                   THEN {[min_row |-> 1, max_row |-> 1, min_col |-> first, max_col |-> first + 1]}
                   ELSE {}]

\* the sheets of the header tests; no sheet ends with empty rows
HeaderSheets ==
    {HeaderSheet(label, parent, lead, gap, fill, ndata) :
        label \in BOOLEAN, parent \in {"none", "repeated", "merged"},
        lead \in {None, "Area"}, gap \in 0..MaxGapRows, fill \in {"empty", "suppressed"},
        ndata \in 0..MaxDataRows}
    \ {sheet \in {HeaderSheet(label, parent, lead, gap, "empty", 0) :
                     label \in BOOLEAN, parent \in {"none", "repeated", "merged"},
                     lead \in {None, "Area"}, gap \in 1..MaxGapRows} : TRUE}

IdleLoad == LoadInit

ExtractInit ==
    /\ ws \in Worksheets \cup HeaderSheets
    /\ structure = NoStructure
    /\ fault = "idle"
    /\ extracted = NotExtracted
    /\ row_cache = NoRowCache
    /\ cell_read = NoRead

\* a call of infer_structure; a call that finds _structure set returns it
InferStructure ==
    /\ structure = NoStructure
    /\ \E failAt \in {"none"} \cup Range(ExtractSteps) :
       \E call \in {infer_structure(ws, failAt)} :
          /\ structure' = call.structure
          /\ fault' = call.failed
    /\ UNCHANGED <<ws, extracted, row_cache, cell_read, loadVars, batchVars, restVars>>

InitExtract == IdleLoad /\ ExtractInit /\ IdleBatch /\ IdleRest
NextExtract == InferStructure
SpecExtract == InitExtract /\ [][NextExtract]_vars

MaxBodyRows == 4      \* rows under the header of a sheet of the data-range tests
MaxEmptyStreak == 6   \* empty rows in a row in such a sheet

\* the header rows of the data-range tests: plain labels, and a header whose
\* second label is the word Source
DataHeaders == {<<"Area", "Code", "Beds">>, <<"Area", "Source", "Beds">>}

\* the rows under a header: a data row, an empty row, a footnote, and the
\* header itself repeated as a section separator
BodyRows(header) ==
    {<<"R1", "12", "7">>, <<None, None, None>>, <<"Note: see", None, None>>, header}

\* the sheets of the data-range tests: a header and up to MaxBodyRows rows
\* under it, or a header, two data rows, a run of empty rows and a data row
DataSheets ==
    UNION {{Worksheet(<<header>> \o body) :
               body \in UNION {[1..n -> BodyRows(header)] : n \in 1..MaxBodyRows}} :
           header \in DataHeaders}
    \cup {Worksheet(<<header, <<"R1", "12", "7">>, <<"R1", "12", "7">> >>
                     \o [i \in 1..n |-> <<None, None, None>>]
                     \o << <<"R1", "12", "7">> >>) :
             header \in DataHeaders, n \in 1..MaxEmptyStreak}

ExtractDataInit ==
    /\ ws \in DataSheets
    /\ structure = NoStructure
    /\ fault = "idle"
    /\ extracted = NotExtracted
    /\ row_cache = NoRowCache
    /\ cell_read = NoRead

\* a call of extract_data on a new extractor: it calls infer_structure and
\* reads the rows of the data range
ExtractData ==
    /\ extracted = NotExtracted
    /\ \E call \in {infer_structure(ws, "none")} :
          /\ structure' = call.structure
          /\ fault' = call.failed
          /\ extracted' = [called |-> TRUE, rows |-> extract_data(ws, call.structure)]
    /\ UNCHANGED <<ws, row_cache, cell_read, loadVars, batchVars, restVars>>

InitExtractData == IdleLoad /\ ExtractDataInit /\ IdleBatch /\ IdleRest
NextExtractData == ExtractData
SpecExtractData == InitExtractData /\ [][NextExtractData]_vars

\* the header texts of the naming tests: a label, the label with the suffix
\* _1, another label, and a label longer than an identifier may be
NameHeaders == {"Area", "Area_1", "Beds", "Long"}

MaxNameColumns == 3   \* columns of a sheet of the naming tests

\* the sheets of the naming tests: a header row of these texts, in every
\* order and with repetitions, over two data rows
NameSheets ==
    {Worksheet(<<header,
                 [j \in 1..MaxNameColumns |-> IF j = 1 THEN "R1" ELSE IF j = 2 THEN "12" ELSE "7"],
                 [j \in 1..MaxNameColumns |-> IF j = 1 THEN "R1" ELSE IF j = 2 THEN "7" ELSE "12"]>>) :
        header \in [1..MaxNameColumns -> NameHeaders]}

NamesInit ==
    /\ ws \in NameSheets
    /\ structure = NoStructure
    /\ fault = "idle"
    /\ extracted = NotExtracted
    /\ row_cache = NoRowCache
    /\ cell_read = NoRead

InitNames == IdleLoad /\ NamesInit /\ IdleBatch /\ IdleRest
SpecNames == InitNames /\ [][NextExtractData]_vars

-----------------------------------------------------------------------------
(* The grid accessor: rows are cached, cells are read with and without the   *)
(* cache.                                                                     *)

MaxGridRows == 2    \* rows that are cached and read: the rows of the sheets
MaxGridCols == 3    \* columns that are cached and read; the sheets have two

\* the rows of the sheets of the grid tests
GridRows ==
    {<<"Area", PaddedCell>>, <<ZeroCell, TwoLineCell>>, <<None, EmptyText>>}

\* the merged ranges of the sheets of the grid tests: none, the first row, the
\* second column, the whole sheet
GridMerges ==
    {{},
     {[min_row |-> 1, max_row |-> 1, min_col |-> 1, max_col |-> 2]},
     {[min_row |-> 1, max_row |-> 2, min_col |-> 2, max_col |-> 2]},
     {[min_row |-> 1, max_row |-> 2, min_col |-> 1, max_col |-> 2]}}

GridSheets ==
    {[max_row |-> 2, max_column |-> 2, cells |-> <<r1, r2>>, merged |-> merged] :
        r1 \in GridRows, r2 \in GridRows, merged \in GridMerges}

GridInit ==
    /\ ws \in GridSheets
    /\ structure = NoStructure
    /\ fault = "idle"
    /\ extracted = NotExtracted
    /\ row_cache = NoRowCache
    /\ cell_read = NoRead

\* a call of _cache_rows
CacheRows ==
    /\ \E rows \in SUBSET (1..MaxGridRows) \ {{}} :
       \E max_col \in 0..MaxGridCols :
          /\ rows \ DOMAIN row_cache # {}
          /\ row_cache' = _cache_rows(ws, row_cache, rows, max_col)
    /\ UNCHANGED <<ws, structure, fault, extracted, cell_read, loadVars, batchVars, restVars>>

\* a cell is read with _get_cached_value_str and with _get_cell_value
ReadCell ==
    /\ \E row \in 1..MaxGridRows :
       \E col \in 1..MaxGridCols :
          cell_read' = [op |-> "read", row |-> row, col |-> col,
                        cached |-> _get_cached_value_str(ws, row_cache, row, col),
                        uncached |-> _get_cell_value(ws, row, col)]
    /\ UNCHANGED <<ws, structure, fault, extracted, row_cache, loadVars, batchVars, restVars>>

InitGrid == IdleLoad /\ GridInit /\ IdleBatch /\ IdleRest
NextGrid == CacheRows \/ ReadCell
SpecGrid == InitGrid /\ [][NextGrid]_vars

\* the text of the anchor of a merged range
AnchorText(sheet, mr) == StrOf(sheet.cells[mr.min_row][mr.min_col])

\* C30: the row cache is transparent: after any calls of _cache_rows (any
\* rows, any widths), for every cell the cached read _get_cached_value_str
\* returns what the uncached read _get_cell_value returns, and for every cell
\* of a merged range both return the text of the top-left cell of the range.
C30_RowCacheTransparent ==
    /\ \A row \in 1..MaxGridRows : \A col \in 1..MaxGridCols :
          /\ _get_cached_value_str(ws, row_cache, row, col) = _get_cell_value(ws, row, col)
          /\ \A mr \in MergedAt(ws, row, col) :
                /\ _get_cached_value_str(ws, row_cache, row, col) = AnchorText(ws, mr)
                /\ _get_cell_value(ws, row, col) = AnchorText(ws, mr)
    /\ cell_read.op = "read" =>
          /\ cell_read.cached = cell_read.uncached
          /\ \A mr \in MergedAt(ws, cell_read.row, cell_read.col) :
                cell_read.cached = AnchorText(ws, mr)

\* a row was cached with one column, and a cell with a text in its second
\* column, outside any merged range, was read
C30_ReadBeyondCachedWidth ==
    /\ cell_read.op = "read"
    /\ cell_read.row \in DOMAIN row_cache
    /\ Len(row_cache[cell_read.row]) = 1
    /\ cell_read.col = 2
    /\ MergedAt(ws, cell_read.row, 2) = {}
    /\ cell_read.uncached = "North South"

\* a cached cell of the second row of a merged range over two rows was read,
\* and its own value is not the text of the anchor
C30_MergedCellRead ==
    /\ cell_read.op = "read"
    /\ cell_read.row = 2
    /\ cell_read.row \in DOMAIN row_cache
    /\ cell_read.col <= Len(row_cache[2])
    /\ MergedAt(ws, 2, cell_read.col) # {}
    /\ StrOf(row_cache[2][cell_read.col]) # cell_read.cached
    /\ cell_read.cached # ""

\* C8: infer_structure never raises: it returns a TableStructure, and a
\* failure during classification, header detection, column building,
\* data-range detection or type inference gives UNRECOGNISED with the message
\* attached, no header rows and no columns.
C8_NeverRaises ==
    fault # "idle" =>
        /\ structure # NoStructure
        /\ fault # "none" =>
              /\ structure.sheet_type = "UNRECOGNISED"
              /\ structure.error_message # None
              /\ structure.header_rows = <<>>
              /\ DOMAIN structure.columns = {}

\* a failure after classification came back as UNRECOGNISED
C8_Caught ==
    /\ fault \in Range(ExtractSteps) \ {"classify"}
    /\ structure.sheet_type = "UNRECOGNISED"
    /\ structure.error_message = fault

\* C9: a TABULAR structure has columns, header rows and a data row range with
\* max(header_rows) < data_start_row <= data_end_row; a structure that is not
\* TABULAR has no columns.
C9_TabularIsWellFormed ==
    /\ structure.sheet_type = "TABULAR" =>
          /\ DOMAIN structure.columns # {}
          /\ structure.header_rows # <<>>
          /\ SeqMax(structure.header_rows) < structure.data_start_row
          /\ structure.data_start_row <= structure.data_end_row
    /\ structure.sheet_type # "TABULAR" => DOMAIN structure.columns = {}

\* a sheet with two header rows and two data rows
C9_Witness ==
    /\ structure.sheet_type = "TABULAR"
    /\ structure.header_rows = <<1, 2>>
    /\ structure.data_start_row = 3
    /\ structure.data_end_row = 4
    /\ DOMAIN structure.columns = {1, 2, 3}

\* a horizontal merge of the first row over the columns col and col + 1
MergedOver(sheet, col) ==
    [min_row |-> 1, max_row |-> 1, min_col |-> col, max_col |-> col + 1] \in sheet.merged

\* the cells of the columns col and col + 1 are numbers in every row from
\* row on, and there is such a row
NumericFrom(sheet, row, col) ==
    /\ sheet.max_row >= row
    /\ \A r \in row..sheet.max_row : \A c \in {col, col + 1} :
          CellValue(sheet, r, c) \in FloatCells \ CalendarYearCells

\* the first row carries Region over the columns col and col + 1, repeated or
\* merged, the second row North and South, and numeric rows follow
HierarchicalAt(sheet, col) ==
    /\ CellValue(sheet, 1, col) = "Region"
    /\ CellValue(sheet, 1, col + 1) = "Region" \/ MergedOver(sheet, col)
    /\ CellValue(sheet, 2, col) = "North"
    /\ CellValue(sheet, 2, col + 1) = "South"
    /\ NumericFrom(sheet, 3, col)

\* the first row carries North and South in the columns col and col + 1, and
\* numeric rows follow
FlatAt(sheet, col) ==
    /\ CellValue(sheet, 1, col) = "North"
    /\ CellValue(sheet, 1, col + 1) = "South"
    /\ NumericFrom(sheet, 2, col)

\* the structure returned is TABULAR with these header rows, and names the
\* columns col and col + 1 so
HeaderBlockNames(header_rows, col, left, right) ==
    /\ structure.sheet_type = "TABULAR"
    /\ structure.header_rows = header_rows
    /\ {col, col + 1} \subseteq DOMAIN structure.columns
    /\ structure.columns[col].pg_name = left
    /\ structure.columns[col + 1].pg_name = right

RegionNorth == <<"r", "e", "g", "i", "o", "n", "_", "n", "o", "r", "t", "h">>
RegionSouth == <<"r", "e", "g", "i", "o", "n", "_", "s", "o", "u", "t", "h">>

\* the sheet is classified TABULAR and its first row has two filled cells
ReadAsTable == ClassifySheet(ws) = "TABULAR" /\ CountCells(ws, 1) >= 2

NoDataRowFound(sheet, header_rows) ==
    \A r \in (SeqMax(header_rows) + 1)..Min(sheet.max_row, SeqMax(header_rows) + 5) :
        ~IsDataRow(sheet, r)

\* infer_structure ran without a fault on a sheet for which a header block
\* is detected and no data row follows it within 5 rows
HeaderWithoutData ==
    /\ fault = "none"
    /\ DetectAllHeaderRows(ws) # <<>>
    /\ NoDataRowFound(ws, DetectAllHeaderRows(ws))

HeaderCandidateRow(sheet, row_num) ==
    ~SkippedRow(sheet, row_num) /\ IsHeaderCandidate(sheet, row_num)

\* the row is one the header scan does not pass over and is a data-candidate
DataCandidateRow(sheet, row_num) ==
    ~SkippedRow(sheet, row_num) /\ IsDataCandidate(sheet, row_num)

\* C21: the detected header block is a contiguous run of rows each of which is
\* a header-candidate, ending at the row immediately before the first
\* data-candidate row: it holds no blank row, no skipped title or note row and
\* no row that is not a header-candidate.
C21_HeaderBlockIsCandidateRun ==
    structure.sheet_type = "TABULAR" =>
        LET header_rows == structure.header_rows
        IN /\ \A i \in DOMAIN header_rows : HeaderCandidateRow(ws, header_rows[i])
           /\ \A i \in 1..(Len(header_rows) - 1) : header_rows[i + 1] = header_rows[i] + 1
           /\ DataCandidateRow(ws, SeqMax(header_rows) + 1)
           /\ \A r \in 1..SeqMax(header_rows) : ~DataCandidateRow(ws, r)

\* a sheet whose header row is followed by a blank row and two data rows was
\* read with the blank row in the header block
C21_BlankRowInHeaderBlock ==
    /\ structure.sheet_type = "TABULAR"
    /\ structure.header_rows = <<1, 2>>
    /\ HeaderCandidateRow(ws, 1)
    /\ CountCells(ws, 2) = 0
    /\ DataCandidateRow(ws, 3)

\* the row repeats, in the first 3 columns, the text of the first header row
RepeatsHeader(sheet, header_rows, row) ==
    /\ row \notin Range(header_rows)
    /\ \A col \in 1..Min(3, sheet.max_column) :
          CellValue(sheet, row, col) = CellValue(sheet, header_rows[1], col)
    /\ \E col \in 1..Min(3, sheet.max_column) : CellValue(sheet, row, col) # None

\* a stop-word row: a cell of its first five columns starts with a stop word,
\* and the row is not a section separator
StopWordRow(sheet, header_rows, row) ==
    /\ \E col \in FilledCols(sheet, row, 5) : CellValue(sheet, row, col) \in StopWordCells
    /\ ~RepeatsHeader(sheet, header_rows, row)

\* the row and the four rows before it, none before from, are empty
EndsEmptyStreak(sheet, from, row) ==
    /\ row - 4 >= from
    /\ \A r \in (row - 4)..row : FilledCols(sheet, r, 5) = {}

\* the first row from from on at which the scan for the end of the data
\* stops: a stop-word row, the fifth of five consecutive empty rows, or the
\* row after the last row of the sheet
ScanStop(sheet, header_rows, from) ==
    LET stops == {r \in from..sheet.max_row :
                     StopWordRow(sheet, header_rows, r) \/ EndsEmptyStreak(sheet, from, r)}
    IN IF stops = {} THEN sheet.max_row + 1
       ELSE CHOOSE r \in stops : \A q \in stops : r <= q

\* the rows of the data range that have a cell in the first five columns
NonEmptyBefore(sheet, from, stop) ==
    {r \in from..(stop - 1) : FilledCols(sheet, r, 5) # {}}

\* C22: the data range starts just after the header block and ends at the
\* last non-empty row before the first of a stop-word row, five consecutive
\* empty rows and the end of the sheet; no extracted row lies at or after the
\* first stop-word row; a row that repeats the header text in the first 3
\* columns does not end the range and is not emitted as a data row.
C22_DataRange ==
    (extracted # NotExtracted /\ structure.sheet_type = "TABULAR") =>
        LET header_rows == structure.header_rows
            from == structure.data_start_row
            stop == ScanStop(ws, header_rows, from)
            emitted == {extracted.rows[i].row : i \in DOMAIN extracted.rows}
        IN /\ from = SeqMax(header_rows) + 1
           /\ NonEmptyBefore(ws, from, stop) # {} =>
                 /\ structure.data_end_row \in NonEmptyBefore(ws, from, stop)
                 /\ \A r \in NonEmptyBefore(ws, from, stop) : r <= structure.data_end_row
           /\ \A r \in emitted : r < stop
           /\ \A r \in emitted : ~RepeatsHeader(ws, header_rows, r)

\* a sheet with the header Area, Source, Beds, two data rows, the header
\* repeated and one more data row was extracted: the data range ends before
\* the repeated header
C22_SeparatorEndsRange ==
    /\ extracted # NotExtracted
    /\ structure.sheet_type = "TABULAR"
    /\ ws.max_row = 5
    /\ structure.header_rows = <<1>>
    /\ RepeatsHeader(ws, structure.header_rows, 4)
    /\ IsDataRow(ws, 5)
    /\ structure.data_start_row = 2
    /\ structure.data_end_row = 3
    /\ Len(extracted.rows) = 2

\* the header of the sheet holds no stop word, and the sheet has a data row
PlainHeader ==
    /\ \A col \in 1..ws.max_column : CellValue(ws, 1, col) \notin StopWordCells
    /\ \E r \in 1..ws.max_row : IsDataRow(ws, r)

\* what holds of the data range of such a sheet
DataRangeOfPlainSheets == PlainHeader => C22_DataRange

\* C26: the column identifiers produced by one extraction are pairwise
\* distinct and at most 63 characters long, for every combination of header
\* texts, so that every extracted column keeps its own values in the extracted
\* rows.
C26_IdentifiersDistinct ==
    (extracted # NotExtracted /\ structure.sheet_type = "TABULAR") =>
        LET columns == structure.columns
        IN /\ \A c, d \in DOMAIN columns :
                 columns[c].pg_name = columns[d].pg_name => c = d
           /\ \A c \in DOMAIN columns : Len(columns[c].pg_name) <= PgIdentLimit
           /\ \A i \in DOMAIN extracted.rows : \A c \in DOMAIN columns :
                 /\ columns[c].pg_name \in DOMAIN extracted.rows[i].data
                 /\ extracted.rows[i].data[columns[c].pg_name]
                      = CellValue(ws, extracted.rows[i].row, c)

\* a sheet with the headers Area, Area and Area_1 was extracted: the second
\* and the third column are both named area_1, and the rows hold the values of
\* the third under that name
C26_SuffixCollides ==
    /\ extracted # NotExtracted
    /\ structure.sheet_type = "TABULAR"
    /\ ws.cells[1] = <<"Area", "Area", "Area_1">>
    /\ structure.columns[2].pg_name = <<"a", "r", "e", "a", "_", "1">>
    /\ structure.columns[3].pg_name = <<"a", "r", "e", "a", "_", "1">>
    /\ Len(extracted.rows) = 2
    /\ DOMAIN extracted.rows[1].data = {<<"a", "r", "e", "a">>, <<"a", "r", "e", "a", "_", "1">>}

\* two columns with the long header were extracted: the second name is cut to
\* make room for its suffix
C26_LongNamesCut ==
    /\ extracted # NotExtracted
    /\ structure.sheet_type = "TABULAR"
    /\ ws.cells[1] = <<"Long", "Long", "Beds">>
    /\ Len(structure.columns[1].pg_name) = PgIdentLimit
    /\ Len(structure.columns[2].pg_name) = PgIdentLimit
    /\ structure.columns[1].pg_name # structure.columns[2].pg_name

\* what holds when no header text ends in a suffix of its own
DistinctWithoutSuffixedHeaders ==
    (\A j \in 1..ws.max_column : CellValue(ws, 1, j) # "Area_1") => C26_IdentifiersDistinct

-----------------------------------------------------------------------------
(* The batch drivers: process_data_file on the members of a ZIP and          *)
(* load_period_files on the files of the periods of a run.  A batch is a     *)
(* sequence of files, [type, sheets]; what happens to a sheet is drawn when  *)
(* the driver reaches it.                                                    *)

MaxFiles == 2       \* files of a batch
MaxSheets == 2      \* sheets of a workbook

FileShapes == {[type |-> "csv", sheets |-> 1]} \cup
              {[type |-> "xlsx", sheets |-> n] : n \in 1..MaxSheets}

Batches == UNION {[1..n -> FileShapes] : n \in 1..MaxFiles}

Fates == {"ok", "empty", "not_found", "read_error", "extract_raises", "load_error"}

\* the sheet after pos in the order the drivers' loops visit them
Advance(p) ==
    IF p.sheet < batch[p.file].sheets THEN [file |-> p.file, sheet |-> p.sheet + 1]
    ELSE [file |-> p.file + 1, sheet |-> 1]

Running(name) == driver = name /\ ~aborted /\ pos.file \in DOMAIN batch

\* what the driver does when it has handled the sheet at pos: an exception
\* that leaves the loop ends the run
Handled(outcome) ==
    /\ processed' = processed \cup {[file |-> pos.file, sheet |-> pos.sheet,
                                     outcome |-> outcome]}
    /\ aborted' = (outcome = "raised")
    /\ pos' = IF outcome = "raised" THEN pos ELSE Advance(pos)
    /\ UNCHANGED <<batch, driver, loadVars, extractVars, restVars>>

\* process_data_file, one sheet of a workbook: the body of the loop is inside
\* try / except Exception
ProcessSheet ==
    /\ Running("process_data_file")
    /\ batch[pos.file].type = "xlsx"
    /\ \E fate \in {"ok", "empty", "extract_raises", "load_error"} :
          Handled(IF fate = "ok" THEN "loaded" ELSE "skipped")

\* process_data_file, a CSV file: reading is guarded, _enrich_and_load is not
ProcessCsv ==
    /\ Running("process_data_file")
    /\ batch[pos.file].type = "csv"
    /\ \E fate \in {"ok", "empty", "read_error", "load_error"} :
          Handled(CASE fate = "ok" -> "loaded"
                    [] fate \in {"empty", "read_error"} -> "skipped"
                    [] OTHER -> "raised")

\* load_period_files, one sheet mapping of one file: load_file / load_sheet is
\* called outside any try; load_sheet returns 0 rows for a missing sheet
LoadPeriodSheet ==
    /\ Running("load_period_files")
    /\ \E fate \in IF batch[pos.file].type = "csv"
                   THEN {"ok", "empty", "read_error", "load_error"}
                   ELSE {"ok", "empty", "not_found", "extract_raises", "load_error"} :
          Handled(CASE fate = "ok" -> "loaded"
                    [] fate \in {"empty", "not_found"} -> "skipped"
                    [] OTHER -> "raised")

BatchInit ==
    /\ batch \in Batches
    /\ driver \in {"process_data_file", "load_period_files"}
    /\ pos = [file |-> 1, sheet |-> 1]
    /\ processed = {}
    /\ aborted = FALSE

InitBatch == IdleLoad /\ IdleExtract /\ BatchInit /\ IdleRest
NextBatch == ProcessSheet \/ ProcessCsv \/ LoadPeriodSheet
SpecBatch == InitBatch /\ [][NextBatch]_vars

AllSheets == {<<i, j>> \in (DOMAIN batch) \X (1..MaxSheets) : j <= batch[i].sheets}

\* C10: a failure on one sheet never prevents the remaining sheets of the
\* file, or the remaining files and periods of the run, from being processed:
\* when the driver has stopped, every sheet of the batch has been handled.
C10_FaultIsolation ==
    (aborted \/ pos.file \notin DOMAIN batch)
        => {<<r.file, r.sheet>> : r \in processed} = AllSheets

\* a workbook of process_data_file whose first sheet failed and whose second
\* sheet was loaded
C10_Isolated ==
    /\ driver = "process_data_file"
    /\ [file |-> 1, sheet |-> 1, outcome |-> "skipped"] \in processed
    /\ [file |-> 1, sheet |-> 2, outcome |-> "loaded"] \in processed

-----------------------------------------------------------------------------
(* The grain classifier: metadata/grain.py.  A frame of the classifier is   *)
(* [columns: sequence of names, values: per column the sequence of its      *)
(* cells]; a cell is a string (a sequence of characters) or NaN.            *)

\* MIN_CONFIDENCE and MIN_CONFIDENCE_ORG_COLUMN as fractions
MIN_CONFIDENCE == [num |-> 1, den |-> 2]
MIN_CONFIDENCE_ORG_COLUMN == [num |-> 3, den |-> 10]
MIN_MATCHES == 3
SampleSize == 50
ColumnsScanned == 10
HighPriority == 70
ShortNameLength == 20

PRIMARY_ORG_COLUMN_PATTERNS ==
    {<<"o", "r", "g", " ", "c", "o", "d", "e">>,
     <<"o", "r", "g", "_", "c", "o", "d", "e">>,
     <<"o", "r", "g", "a", "n", "i", "s", "a", "t", "i", "o", "n", " ", "c", "o", "d", "e">>,
     <<"o", "r", "g", "a", "n", "i", "z", "a", "t", "i", "o", "n", " ", "c", "o", "d", "e">>,
     <<"p", "r", "o", "v", "i", "d", "e", "r", " ", "c", "o", "d", "e">>,
     <<"p", "r", "o", "v", "i", "d", "e", "r", "_", "c", "o", "d", "e">>,
     <<"o", "r", "g", " ", "i", "d">>,
     <<"o", "r", "g", "_", "i", "d">>,
     <<"p", "r", "o", "v", "i", "d", "e", "r", " ", "i", "d">>,
     <<"p", "r", "o", "v", "i", "d", "e", "r", "_", "i", "d">>}

EXCLUDE_VALUES ==
    {<<"U", "N", "K", "N", "O", "W", "N">>,
     <<"O", "T", "H", "E", "R">>,
     <<"U", "N", "S", "P", "E", "C", "I", "F", "I", "E", "D">>,
     <<"N", "/", "A">>,
     <<"N", "A">>,
     <<"-">>,
     <<>>,
     <<"N", "U", "L", "L">>,
     <<"N", "O", "N", "E">>,
     <<"A", "L", "L", " ", "P", "R", "O", "V", "I", "D", "E", "R", "S">>,
     <<"A", "L", "L", " ", "T", "R", "U", "S", "T", "S">>,
     <<"A", "L", "L", " ", "I", "C", "B", "S">>,
     <<"S", "U", "P", "P", "R", "E", "S", "S", "E", "D">>,
     <<"R", "E", "D", "A", "C", "T", "E", "D">>,
     <<"*">>}

MEASURE_KEYWORDS ==
    {<<"c", "o", "u", "n", "t">>,
     <<"t", "o", "t", "a", "l">>,
     <<"n", "u", "m", "b", "e", "r">>,
     <<"p", "e", "r", "c", "e", "n", "t">>,
     <<"r", "a", "t", "e">>,
     <<"r", "a", "t", "i", "o">>,
     <<"a", "v", "e", "r", "a", "g", "e">>,
     <<"m", "e", "a", "n">>,
     <<"m", "e", "d", "i", "a", "n">>,
     <<"s", "u", "m">>,
     <<"r", "e", "f", "e", "r", "r", "a", "l", "s">>,
     <<"w", "a", "i", "t", "i", "n", "g">>,
     <<"d", "e", "l", "i", "v", "e", "r", "i", "e", "s">>,
     <<"a", "d", "m", "i", "s", "s", "i", "o", "n", "s">>,
     <<"e", "p", "i", "s", "o", "d", "e", "s">>,
     <<"a", "t", "t", "e", "n", "d", "a", "n", "c", "e", "s">>,
     <<"a", "p", "p", "o", "i", "n", "t", "m", "e", "n", "t", "s">>,
     <<"a", "n", "a", "e", "s", "t", "h", "e", "t", "i", "c">>,
     <<"c", "a", "e", "s", "a", "r", "e", "a", "n">>,
     <<"s", "p", "o", "n", "t", "a", "n", "e", "o", "u", "s">>,
     <<"s", "u", "r", "g", "i", "c", "a", "l">>,
     <<"s", "t", "a", "y">>,
     <<"l", "e", "n", "g", "t", "h">>,
     <<"d", "u", "r", "a", "t", "i", "o", "n">>,
     <<"d", "a", "y", "s">>,
     <<"h", "o", "u", "r", "s">>,
     <<"w", "e", "e", "k", "s">>,
     <<"b", "r", "e", "a", "c", "h", "e", "s">>,
     <<"w", "a", "i", "t", "s">>,
     <<"p", "a", "t", "i", "e", "n", "t", "s">>}

ENTITY_KEYWORDS ==
    {<<"c", "o", "d", "e">>,
     <<" ", "i", "d">>,
     <<"o", "r", "g">>,
     <<"p", "r", "o", "v", "i", "d", "e", "r", " ", "c", "o", "d", "e">>,
     <<"t", "r", "u", "s", "t", " ", "c", "o", "d", "e">>,
     <<"i", "c", "b", " ", "c", "o", "d", "e">>,
     <<"r", "e", "g", "i", "o", "n", " ", "c", "o", "d", "e">>,
     <<"p", "r", "a", "c", "t", "i", "c", "e", " ", "c", "o", "d", "e">>,
     <<"c", "o", "m", "m", "i", "s", "s", "i", "o", "n", "e", "r", " ", "c", "o", "d", "e">>,
     <<"o", "r", "g", " ", "n", "a", "m", "e">>,
     <<"p", "r", "o", "v", "i", "d", "e", "r", " ", "n", "a", "m", "e">>,
     <<"t", "r", "u", "s", "t", " ", "n", "a", "m", "e">>,
     <<"g", "e", "o", "g", "r", "a", "p", "h", "y">>}

\* ENTITY_PATTERNS, in the order of the dict; national has no pattern
ENTITY_PATTERNS ==
    <<[grain |-> "trust", priority |-> 100],
      [grain |-> "icb", priority |-> 100],
      [grain |-> "gp_practice", priority |-> 100],
      [grain |-> "ccg", priority |-> 70],
      [grain |-> "region", priority |-> 50]>>

NationalKeywords ==
    {<<"E", "N", "G", "L", "A", "N", "D">>,
     <<"N", "A", "T", "I", "O", "N", "A", "L">>,
     <<"T", "O", "T", "A", "L">>,
     <<"A", "L", "L">>}

\* NAME_PATTERNS, in the order of the dict
NAME_PATTERNS ==
    <<[grain |-> "trust",
       keywords |-> {<<"N", "H", "S", " ", "T", "R", "U", "S", "T">>,
                     <<"N", "H", "S", " ", "F", "O", "U", "N", "D", "A", "T", "I", "O", "N", " ", "T", "R", "U", "S", "T">>,
                     <<"U", "N", "I", "V", "E", "R", "S", "I", "T", "Y", " ", "H", "O", "S", "P", "I", "T", "A", "L">>}],
      [grain |-> "icb",
       keywords |-> {<<"I", "N", "T", "E", "G", "R", "A", "T", "E", "D", " ", "C", "A", "R", "E", " ", "B", "O", "A", "R", "D">>,
                     <<" ", "I", "C", "B">>}]>>

\* a missing cell of a frame of the classifier
NullCell == <<NaN>>

\* str.upper() on one character
ToUpper(c) ==
    IF c \in LowerLetters
    THEN UpperAlphabet[CHOOSE i \in DOMAIN LowerAlphabet : LowerAlphabet[i] = c]
    ELSE c

Upper(s) == [i \in 1..Len(s) |-> ToUpper(s[i])]

\* str.replace(old, new) for one character
ReplaceChar(s, old, new) == [i \in 1..Len(s) |-> IF s[i] = old THEN new ELSE s[i]]

\* [A-Z0-9]
UpperAlnum == UpperLetters \cup DigitChars

\* re.match(ENTITY_PATTERNS[grain]['pattern'], v)
EntityMatch(grain, v) ==
    CASE grain = "trust" ->          \* ^R[A-Z0-9]{1,4}$
           /\ Len(v) \in 2..5
           /\ v[1] = "R"
           /\ \A i \in 2..Len(v) : v[i] \in UpperAlnum
      [] grain = "icb" ->            \* ^Q[A-Z0-9]{2}$
           /\ Len(v) = 3
           /\ v[1] = "Q"
           /\ \A i \in 2..3 : v[i] \in UpperAlnum
      [] grain = "gp_practice" ->    \* ^[A-Z][0-9]{5}$
           /\ Len(v) = 6
           /\ v[1] \in UpperLetters
           /\ \A i \in 2..6 : v[i] \in DigitChars
      [] grain = "ccg" ->            \* ^[0-9]{2}[A-Z]$
           /\ Len(v) = 3
           /\ v[1] \in DigitChars
           /\ v[2] \in DigitChars
           /\ v[3] \in UpperLetters
      [] grain = "region" ->         \* ^Y[0-9]{2}$
           /\ Len(v) = 3
           /\ v[1] = "Y"
           /\ \A i \in 2..3 : v[i] \in DigitChars
      [] OTHER -> FALSE

_is_measure_column(col_name) ==
    \E m \in MEASURE_KEYWORDS : Contains(Lower(col_name), m)

\* col_name.lower().replace('_', ' ').replace('\n', ' ')
SpacedLower(col_name) == ReplaceChar(ReplaceChar(Lower(col_name), "_", " "), "\n", " ")

_is_primary_org_column(col_name) ==
    \E pattern \in PRIMARY_ORG_COLUMN_PATTERNS : Contains(SpacedLower(col_name), pattern)

_is_likely_entity_column(col_name) ==
    IF \E keyword \in MEASURE_KEYWORDS : Contains(SpacedLower(col_name), keyword)
    THEN FALSE
    ELSE IF Len(col_name) <= ShortNameLength THEN TRUE
    ELSE \E keyword \in ENTITY_KEYWORDS : Contains(SpacedLower(col_name), keyword)

\* a cleaning that keeps the placeholders
KeepPlaceholders(values) == values

_clean_values(values) == SelectSeq(values, LAMBDA v : Upper(v) \notin EXCLUDE_VALUES)

\* df[col].dropna().head(50).astype(str).str.upper().str.strip().tolist()
SampleValues(cells) ==
    LET present == SelectSeq(cells, LAMBDA v : v # NullCell)
        head == SubSeq(present, 1, Min(SampleSize, Len(present)))
    IN [i \in 1..Len(head) |-> Strip(Upper(head[i]), {" ", "\t", "\n"})]

\* the values of the sample that match the pattern of the grain
MatchCount(grain, values) == Len(SelectSeq(values, LAMBDA v : EntityMatch(grain, v)))

\* round(matches / n, 2), in hundredths: halves go to the even hundredth
Round2(matches, n) ==
    LET q == (100 * matches) \div n
        rem == (100 * matches) % n
    IN IF 2 * rem > n \/ (2 * rem = n /\ q % 2 = 1) THEN q + 1 ELSE q

NoMatch == [grain |-> "none", confidence |-> 0, priority |-> 0]

\* the loop of _detect_entity_in_column over the patterns from position i on;
\* best_matches is the match count of best (priority * confidence is compared,
\* the confidences of one column share their denominator)
RECURSIVE EntityScan(_, _, _, _, _)
EntityScan(values, min_confidence, i, best, best_matches) ==
    IF i > Len(ENTITY_PATTERNS) THEN best
    ELSE
      LET config == ENTITY_PATTERNS[i]
          matches == MatchCount(config.grain, values)
          accepted == /\ matches * min_confidence.den >= min_confidence.num * Len(values)
                      /\ matches >= MIN_MATCHES
          better == accepted /\ config.priority * matches > best.priority * best_matches
      IN IF better
         THEN EntityScan(values, min_confidence, i + 1,
                         [grain |-> config.grain,
                          confidence |-> Round2(matches, Len(values)),
                          priority |-> config.priority], matches)
         ELSE EntityScan(values, min_confidence, i + 1, best, best_matches)

\* _detect_entity_in_column: the match, or NoMatch for None
_detect_entity_in_column(values, min_confidence) ==
    IF values = <<>> THEN NoMatch
    ELSE EntityScan(values, min_confidence, 1, NoMatch, 0)

\* list(df.columns)[:10]
ScannedColumns(df) == 1..Min(ColumnsScanned, Len(df.columns))

\* the cleaned sample of column j
CleanSample(df, j) == _clean_values(SampleValues(df.values[j]))

\* PASS 1 from column j on: the last primary org column with a match wins
RECURSIVE PrimaryPass(_, _, _)
PrimaryPass(df, j, found) ==
    IF j \notin ScannedColumns(df) THEN found
    ELSE
      LET col == df.columns[j]
          match == _detect_entity_in_column(CleanSample(df, j), MIN_CONFIDENCE_ORG_COLUMN)
      IN IF /\ ~_is_measure_column(col)
            /\ _is_primary_org_column(col)
            /\ CleanSample(df, j) # <<>>
            /\ match # NoMatch
         THEN PrimaryPass(df, j + 1, [match |-> match, grain_column |-> col])
         ELSE PrimaryPass(df, j + 1, found)

NoColumnMatch == [match |-> NoMatch, grain_column |-> <<>>]

\* PASS 2 from column j on: the match with the highest priority * confidence,
\* the first of equals
RECURSIVE StandardPass(_, _, _)
StandardPass(df, j, best) ==
    IF j \notin ScannedColumns(df) THEN best
    ELSE
      LET col == df.columns[j]
          match == _detect_entity_in_column(CleanSample(df, j), MIN_CONFIDENCE)
      IN IF /\ ~_is_measure_column(col)
            /\ _is_likely_entity_column(col)
            /\ CleanSample(df, j) # <<>>
            /\ match # NoMatch
            /\ match.priority * match.confidence
                  > best.match.priority * best.match.confidence
         THEN StandardPass(df, j + 1, [match |-> match, grain_column |-> col])
         ELSE StandardPass(df, j + 1, best)

\* ' '.join(values)
RECURSIVE JoinSpace(_)
JoinSpace(values) ==
    IF values = <<>> THEN <<>>
    ELSE IF Len(values) = 1 THEN values[1]
    ELSE values[1] \o <<" ">> \o JoinSpace(Tail(values))

GrainResult(grain, grain_column, confidence) ==
    [grain |-> grain, grain_column |-> grain_column, confidence |-> confidence]

UnknownGrain == GrainResult("unknown", <<>>, 0)

\* PASS 3: the (column, name pattern) pairs, in the order of the loops, that
\* return; the first of them is the result
NamePassHits(df) ==
    {p \in ScannedColumns(df) \X DOMAIN NAME_PATTERNS :
        LET values == SampleValues(df.values[p[1]])
            keywords == NAME_PATTERNS[p[2]].keywords
            row_matches == Len(SelectSeq(values,
                                LAMBDA v : \E kw \in keywords : Contains(v, kw)))
        IN /\ ~_is_measure_column(df.columns[p[1]])
           /\ values # <<>>
           /\ \E kw \in keywords : Contains(JoinSpace(values), kw)
           /\ 10 * row_matches >= 3 * Len(values)
           /\ row_matches >= MIN_MATCHES}

NamePass(df) ==
    LET hits == NamePassHits(df)
        first == CHOOSE p \in hits : \A q \in hits :
                     p[1] < q[1] \/ (p[1] = q[1] /\ p[2] <= q[2])
        values == SampleValues(df.values[first[1]])
        row_matches == Len(SelectSeq(values,
                            LAMBDA v : \E kw \in NAME_PATTERNS[first[2]].keywords :
                                          Contains(v, kw)))
    IN GrainResult(NAME_PATTERNS[first[2]].grain, df.columns[first[1]],
                   Round2(row_matches, Len(values)))

\* PASS 4: some scanned column holds an aggregate keyword
NationalPass(df) ==
    \E j \in ScannedColumns(df) :
        LET values == SampleValues(df.values[j])
        IN /\ values # <<>>
           /\ \E kw \in NationalKeywords : Contains(JoinSpace(values), kw)

\* df.empty
GrainFrameEmpty(df) ==
    Len(df.columns) = 0 \/ \A j \in DOMAIN df.values : Len(df.values[j]) = 0

\* "DECISION" of detect_grain: the match returned, NoColumnMatch when neither
\* pass matched
ResolveHierarchy(primary_org_match, best_match) ==
    IF /\ primary_org_match.match # NoMatch
       /\ best_match.match # NoMatch
       /\ primary_org_match.match.priority >= HighPriority
    THEN primary_org_match
    ELSE IF best_match.match # NoMatch THEN best_match
    ELSE primary_org_match

detect_grain(df) ==
    IF GrainFrameEmpty(df) THEN UnknownGrain
    ELSE
      LET primary_org_match == PrimaryPass(df, 1, NoColumnMatch)
          best_match == StandardPass(df, 1, NoColumnMatch)
          result == ResolveHierarchy(primary_org_match, best_match)
      IN IF result.match # NoMatch
         THEN GrainResult(result.match.grain, result.grain_column, result.match.confidence)
         ELSE IF NamePassHits(df) # {} THEN NamePass(df)
         ELSE IF NationalPass(df) THEN GrainResult("national", <<>>, 80)
         ELSE UnknownGrain

-----------------------------------------------------------------------------
(* The classifier as a state machine: a frame is drawn, detect_grain is     *)
(* applied to it.                                                           *)

MaxCodes == 4      \* cells of a column that hold its first kind of value
MaxCells == 11     \* cells of a column with a value

TrustCode == <<"R", "J", "1">>
IcbCode == <<"q", "w", "e">>
CcgCode == <<"0", "0", "J">>
RegionCode == <<"Y", "5", "6">>
OnsSubIcbCode == <<"E", "5", "4", "0", "0", "0", "0", "2", "7">>
OnsRegionCode == <<"E", "4", "0", "0", "0", "0", "0", "0", "3">>
OnsEnglandCode == <<"E", "9", "2", "0", "0", "0", "0", "0", "1">>
LocalAuthorityCode == <<"E", "0", "9", "0", "0", "0", "0", "0", "8">>
PlainText == <<"N", "o", "t", "A", "C", "o", "d", "e">>
AreaName == <<"C", "a", "m", "d", "e", "n">>
TrustName == <<"R", "o", "y", "a", "l", " ", "N", "H", "S", " ", "T", "r", "u", "s", "t">>
Placeholder == <<"U", "n", "k", "n", "o", "w", "n">>
Aggregate == <<"E", "n", "g", "l", "a", "n", "d">>

\* n cells holding v
Repeat(v, n) == [i \in 1..n |-> v]

\* the column names of the frames: an organisation identifier, a hierarchy
\* column, a name column, a measure
OrgCodeColumn == <<"o", "r", "g", "_", "c", "o", "d", "e">>
RegionCodeColumn == <<"R", "e", "g", "i", "o", "n", " ", "C", "o", "d", "e">>
AreaCodeColumn == <<"A", "r", "e", "a", " ", "C", "o", "d", "e">>
NameColumn == <<"o", "r", "g", "_", "n", "a", "m", "e">>
MeasureColumn == <<"t", "o", "t", "a", "l", "_", "c", "o", "u", "n", "t">>

\* the first column of a frame: codes of one kind, then values of another
\* kind, then placeholders
FirstColumns ==
    {[name |-> name, cells |-> Repeat(a, m) \o Repeat(b, j) \o Repeat(Placeholder, k)] :
        name \in {OrgCodeColumn, AreaCodeColumn},
        a \in {TrustCode, CcgCode, OnsSubIcbCode, OnsRegionCode, LocalAuthorityCode},
        m \in 0..MaxCodes,
        b \in {PlainText, RegionCode, OnsSubIcbCode},
        j \in {n \in {0, 1, 4, 7} : n <= MaxCells - MaxCodes},
        k \in {0, 2}}

\* the second column of a frame: a hierarchy column (without values, with
\* region codes or with ICB codes), a name column (area names, trust names or
\* the aggregate keyword), or a measure that looks like codes
SecondColumns ==
    {[name |-> RegionCodeColumn, cells |-> <<>>],
     [name |-> RegionCodeColumn, cells |-> Repeat(RegionCode, 3)],
     [name |-> RegionCodeColumn, cells |-> Repeat(IcbCode, 4)],
     [name |-> NameColumn, cells |-> Repeat(AreaName, 3)],
     [name |-> NameColumn, cells |-> Repeat(TrustName, 3)],
     [name |-> NameColumn, cells |-> Repeat(Aggregate, 3)],
     [name |-> MeasureColumn, cells |-> Repeat(RegionCode, 3)]}

\* column cells padded with missing cells to n rows
Padded(cells, n) == cells \o Repeat(NullCell, n - Len(cells))

GrainFrame(first, second) ==
    LET n == Max(Len(first.cells), Len(second.cells))
    IN [columns |-> <<first.name, second.name>>,
        values |-> <<Padded(first.cells, n), Padded(second.cells, n)>>]

GrainFrames == {GrainFrame(first, second) : first \in FirstColumns, second \in SecondColumns}

NoGrainFrame == [columns |-> <<>>, values |-> <<>>]
NoGrain == GrainResult("none", <<>>, 0)

IdleGrain == gdf = NoGrainFrame /\ grain_info = NoGrain

GrainInit == gdf \in GrainFrames /\ grain_info = NoGrain

\* _enrich_and_load: grain_info = detect_grain(df)
DetectGrain ==
    /\ grain_info = NoGrain
    /\ \E res \in {detect_grain(gdf)} : grain_info' = res
    /\ UNCHANGED <<gdf, loadVars, extractVars, batchVars, concVars, enrichVars, periodVars, typeVars>>

InitGrain == IdleLoad /\ IdleExtract /\ IdleBatch /\ IdleConc /\ GrainInit /\ IdleEnrich
             /\ IdlePeriod /\ IdleTypes
NextGrain == DetectGrain
SpecGrain == InitGrain /\ [][NextGrain]_vars

-----------------------------------------------------------------------------
(* Properties of the grain classifier *)

Classified == grain_info # NoGrain

\* what the two code-based passes find in the frame
PrimaryFound == PrimaryPass(gdf, 1, NoColumnMatch)
StandardFound == StandardPass(gdf, 1, NoColumnMatch)

\* C13: when both passes match, detect_grain returns the primary-identifier
\* column and its grain if that grain is trust, ICB or GP practice, otherwise
\* the standard-pass match; when only one pass matches, that match is returned.
C13_GrainResolution ==
    (Classified /\ (PrimaryFound.match # NoMatch \/ StandardFound.match # NoMatch)) =>
        LET expected ==
              IF PrimaryFound.match # NoMatch /\ StandardFound.match # NoMatch
              THEN IF PrimaryFound.match.grain \in {"trust", "icb", "gp_practice"}
                   THEN PrimaryFound ELSE StandardFound
              ELSE IF PrimaryFound.match # NoMatch THEN PrimaryFound ELSE StandardFound
        IN /\ grain_info.grain = expected.match.grain
           /\ grain_info.grain_column = expected.grain_column

\* a frame with trust codes under org_code, below the standard threshold, and
\* region codes in a hierarchy column is classified as trust by org_code
C13_TrustOverRegion ==
    /\ Classified
    /\ gdf.columns = <<OrgCodeColumn, RegionCodeColumn>>
    /\ StandardFound.match.grain = "region"
    /\ PrimaryFound.match.grain = "trust"
    /\ grain_info.grain = "trust"
    /\ grain_info.grain_column = OrgCodeColumn

\* the sampled non-null values of column j without the placeholders
SampleWithoutPlaceholders(j) ==
    SelectSeq(SampleValues(gdf.values[j]), LAMBDA v : v \notin EXCLUDE_VALUES)

\* some pattern has at least 3 matches in column j, at a ratio of at least
\* threshold over the sample without placeholders
AcceptedIn(j, threshold) ==
    LET values == SampleWithoutPlaceholders(j)
    IN \E i \in DOMAIN ENTITY_PATTERNS :
          LET matches == MatchCount(ENTITY_PATTERNS[i].grain, values)
          IN /\ matches >= 3
             /\ matches * threshold.den >= threshold.num * Len(values)

\* C14: in both code-based passes a pattern is accepted for a column only if at
\* least 3 sampled values match it and the match ratio is at least the pass
\* threshold (0.3 for primary-identifier columns, 0.5 for the standard pass),
\* the ratio taken over the sampled non-null values without the placeholders;
\* with fewer than 3 matching values and no name or aggregate keyword the
\* result is unknown.
C14_AcceptanceThresholds ==
    Classified =>
        /\ PrimaryFound.match # NoMatch <=>
              \E j \in DOMAIN gdf.columns :
                  /\ ~_is_measure_column(gdf.columns[j])
                  /\ _is_primary_org_column(gdf.columns[j])
                  /\ AcceptedIn(j, [num |-> 3, den |-> 10])
        /\ StandardFound.match # NoMatch <=>
              \E j \in DOMAIN gdf.columns :
                  /\ ~_is_measure_column(gdf.columns[j])
                  /\ _is_likely_entity_column(gdf.columns[j])
                  /\ AcceptedIn(j, [num |-> 1, den |-> 2])
        /\ (/\ \A j \in DOMAIN gdf.columns : \A i \in DOMAIN ENTITY_PATTERNS :
                  MatchCount(ENTITY_PATTERNS[i].grain, SampleWithoutPlaceholders(j)) < 3
            /\ NamePassHits(gdf) = {}
            /\ ~NationalPass(gdf))
           => grain_info.grain = "unknown"

\* org_code holds 3 trust codes, 7 other values and placeholders: accepted by
\* the primary pass at a ratio of exactly 0.3
C14_Witness ==
    /\ Classified
    /\ gdf.columns[1] = OrgCodeColumn
    /\ MatchCount("trust", SampleWithoutPlaceholders(1)) = 3
    /\ Len(SampleWithoutPlaceholders(1)) = 10
    /\ Len(SampleValues(gdf.values[1])) = 12
    /\ StandardFound.match = NoMatch
    /\ grain_info.grain = "trust"

\* the ONS geography codes: E54 sub-ICB, E40 region, E06..E09 local authority
OnsKinds == {"sub_icb", "region", "local_authority"}
OnsCode(kind, v) ==
    /\ Len(v) = 9
    /\ v[1] = "E"
    /\ \A i \in 2..9 : v[i] \in DigitChars
    /\ CASE kind = "sub_icb" -> v[2] = "5" /\ v[3] = "4"
         [] kind = "region" -> v[2] = "4" /\ v[3] = "0"
         [] kind = "local_authority" -> v[2] = "0" /\ v[3] \in {"6", "7", "8", "9"}
         [] OTHER -> FALSE

\* the number of codes of the kind in the sample of the first column
OnsCount(kind) ==
    Len(SelectSeq(SampleWithoutPlaceholders(1), LAMBDA v : OnsCode(kind, v)))

\* the frame has no entity code outside its first column
OnlyFirstColumnHasCodes ==
    \A j \in DOMAIN gdf.columns : j > 1 =>
        \A i \in DOMAIN ENTITY_PATTERNS :
            MatchCount(ENTITY_PATTERNS[i].grain, SampleWithoutPlaceholders(j)) = 0

\* C15: a column whose sampled values are ONS sub-ICB codes (E54...) is
\* classified as sub_icb, ONS region codes (E40...) as region, local-authority
\* codes (E06..E09) as local_authority, with confidence at least 0.5; a column
\* that mixes the levels is classified by its most frequent level.
C15_OnsGeography ==
    (Classified /\ OnlyFirstColumnHasCodes) =>
        \A kind \in OnsKinds :
            (/\ OnsCount(kind) >= 3
             /\ 2 * OnsCount(kind) > Len(SampleWithoutPlaceholders(1)))
            => /\ grain_info.grain = kind
               /\ grain_info.confidence >= 50

\* a frame whose org_code column holds ONS sub-ICB codes only was classified
C15_OnsClassified ==
    /\ Classified
    /\ gdf.columns[1] = OrgCodeColumn
    /\ OnsCount("sub_icb") = 4
    /\ Len(SampleWithoutPlaceholders(1)) = 4
    /\ grain_info.grain = "unknown"

-----------------------------------------------------------------------------
(* enrich_sheet: metadata/enrich.py.  The reply text of the LLM is a        *)
(* sequence of tokens: the code fence, the word json, and JSON documents    *)
(* (an object, a list, a string, a number, null) or text that is no JSON.   *)

Fence == "fence"
JsonWord == "json"
JsonDocuments == {"object", "list", "string", "number", "null"}
NotJson == "prose"
\* response.choices[0].message.content is None
NoContent == <<None>>

\* text.split(fence): the segments between the fences
RECURSIVE SplitFence(_, _)
SplitFence(text, segment) ==
    IF text = <<>> THEN <<segment>>
    ELSE IF Head(text) = Fence THEN <<segment>> \o SplitFence(Tail(text), <<>>)
    ELSE SplitFence(Tail(text), Append(segment, Head(text)))

\* "Handle potential markdown code blocks"
StripCodeBlock(text) ==
    IF Fence \in Range(text)
    THEN LET inner == SplitFence(text, <<>>)[2]
         IN IF inner # <<>> /\ Head(inner) = JsonWord THEN Tail(inner) ELSE inner
    ELSE text

\* json.loads(text.strip()): the kind of document, or "error"
JsonLoads(text) ==
    IF Len(text) = 1 /\ text[1] \in JsonDocuments THEN text[1] ELSE "error"

RequiredFields == {"table_name", "columns", "descriptions"}

\* the statements of enrich_sheet that can raise, in order
EnrichSteps == <<"import", "completion", "content", "loads", "validate",
                 "table_description", "remove_date_patterns">>

\* a try block that starts after the reply was parsed
TryBodyAfterParse == {"validate", "table_description", "remove_date_patterns"}

\* the statements inside "try: response = completion(...)" ... "except Exception"
TryBody == {"completion", "content", "loads", "validate", "table_description",
            "remove_date_patterns"}

\* the statement of enrich_sheet that raises for this behaviour of the LLM,
\* "none" when the call runs to its return statement
RaisingStep(llm) ==
    IF ~llm.library THEN "import"
    ELSE IF llm.completion # "returns" THEN "completion"
    ELSE IF llm.text = NoContent THEN "content"           \* fence in None
    ELSE
      LET result == JsonLoads(StripCodeBlock(llm.text))
      IN IF result = "error" THEN "loads"
         ELSE IF result \in {"number", "null"} THEN "validate"     \* k in result
         ELSE IF result \in {"list", "string"}
              THEN (IF llm.holds_field_names THEN "table_description" ELSE "none")
         ELSE IF ~(RequiredFields \subseteq llm.fields) THEN "none"
         ELSE IF llm.table_name = "number" THEN "remove_date_patterns"
         ELSE "none"

\* the reply fails validation: "Missing required fields in response"
MissingFields(llm) ==
    LET result == JsonLoads(StripCodeBlock(llm.text))
    IN IF result \in {"list", "string"} THEN ~llm.holds_field_names
       ELSE ~(RequiredFields \subseteq llm.fields)

\* enrich_sheet(sheet_name, columns, ...) for fewer than 10 columns (nothing
\* is compressed): the value returned, or raised when an exception leaves it
enrich_sheet(columns, llm) ==
    LET step == RaisingStep(llm)
        fallback == [raised |-> FALSE, fallback |-> TRUE,
                     columns |-> FallbackEnrichment(columns).columns,
                     descriptions |-> FallbackEnrichment(columns).descriptions]
    IN IF step = "import" THEN fallback                   \* except ImportError
       ELSE IF step # "none"
            THEN (IF step \in TryBody THEN fallback
                  ELSE [raised |-> TRUE, fallback |-> FALSE, columns |-> <<>>,
                        descriptions |-> <<>>])
       ELSE IF MissingFields(llm) THEN fallback
       ELSE [raised |-> FALSE, fallback |-> FALSE,
             columns |-> llm.reply.columns, descriptions |-> llm.reply.descriptions]

\* the reply texts of the model
ReplyTexts ==
    {<<d>> : d \in JsonDocuments \cup {NotJson}} \cup
    {<<Fence, JsonWord, "object", Fence>>,
     <<Fence, "object", Fence>>,
     <<NotJson, Fence, JsonWord, "object", Fence, NotJson>>,
     <<"object", Fence>>,
     <<Fence, JsonWord, NotJson, Fence>>,
     <<>>}

\* how the LLM may behave in one call about these columns
LlmBehaviours(columns) ==
    [library : BOOLEAN,
     completion : {"returns", "raises", "timeout"},
     text : ReplyTexts \cup {NoContent},
     holds_field_names : BOOLEAN,
     fields : {RequiredFields, RequiredFields \cup {"table_description"},
               {"table_name", "columns"}, {"columns", "descriptions"}, {}},
     table_name : {"string", "number"},
     reply : EnrichReplies(columns)]

EnrichSheetInit ==
    /\ \E columns \in {{<<"a">>}, {<<"a">>, <<"b">>}} :
       \E llm \in LlmBehaviours(columns) :
          llm_call = [columns |-> columns, llm |-> llm]
    /\ enrichment = NotCalled

\* enrichment = enrich_sheet(...)
EnrichSheet ==
    /\ enrichment = NotCalled
    /\ \E res \in {enrich_sheet(llm_call.columns, llm_call.llm)} : enrichment' = res
    /\ UNCHANGED <<llm_call, loadVars, extractVars, batchVars, concVars, grainVars, periodVars, typeVars>>

InitEnrichSheet == IdleLoad /\ IdleExtract /\ IdleBatch /\ IdleConc /\ IdleGrain
                   /\ EnrichSheetInit /\ IdlePeriod /\ IdleTypes
NextEnrichSheet == EnrichSheet
SpecEnrichSheet == InitEnrichSheet /\ [][NextEnrichSheet]_vars

\* the library is missing, the call fails or times out, or the reply is no
\* JSON object with the required fields
EnrichmentFailed ==
    LET llm == llm_call.llm
    IN \/ ~llm.library
       \/ llm.completion \in {"raises", "timeout"}
       \/ llm.text = NoContent
       \/ JsonLoads(StripCodeBlock(llm.text)) # "object"
       \/ ~(RequiredFields \subseteq llm.fields)

-----------------------------------------------------------------------------
(* parse_period and parse_period_range: utils/period.py.  A text is a       *)
(* sequence of tokens separated by single spaces: month names, years,       *)
(* year-month pairs, quarters and words.  A token is [kind, name, year,     *)
(* month]; years and months are digit strings, a period is YYYY-MM.         *)

MONTHS ==
    [name \in {"january", "jan", "february", "feb", "march", "mar", "april", "apr", "may", "june", "jun", "july", "jul", "august", "aug", "september", "sep", "sept", "october", "oct", "november", "nov", "december", "dec"} |->
        CASE name = "january" -> <<"0", "1">>
          [] name = "jan" -> <<"0", "1">>
          [] name = "february" -> <<"0", "2">>
          [] name = "feb" -> <<"0", "2">>
          [] name = "march" -> <<"0", "3">>
          [] name = "mar" -> <<"0", "3">>
          [] name = "april" -> <<"0", "4">>
          [] name = "apr" -> <<"0", "4">>
          [] name = "may" -> <<"0", "5">>
          [] name = "june" -> <<"0", "6">>
          [] name = "jun" -> <<"0", "6">>
          [] name = "july" -> <<"0", "7">>
          [] name = "jul" -> <<"0", "7">>
          [] name = "august" -> <<"0", "8">>
          [] name = "aug" -> <<"0", "8">>
          [] name = "september" -> <<"0", "9">>
          [] name = "sep" -> <<"0", "9">>
          [] name = "sept" -> <<"0", "9">>
          [] name = "october" -> <<"1", "0">>
          [] name = "oct" -> <<"1", "0">>
          [] name = "november" -> <<"1", "1">>
          [] name = "nov" -> <<"1", "1">>
          [] name = "december" -> <<"1", "2">>
          [] name = "dec" -> <<"1", "2">>]

Token(kind, name, year, month) == [kind |-> kind, name |-> name, year |-> year, month |-> month]

\* the tokens of the model's texts
October == Token("month", "october", <<>>, <<>>)
September == Token("month", "september", <<>>, <<>>)
Jan == Token("month", "jan", <<>>, <<>>)
Sep == Token("month", "sep", <<>>, <<>>)
Y2019 == Token("year", "2019", <<"2", "0", "1", "9">>, <<>>)
Y2025 == Token("year", "2025", <<"2", "0", "2", "5">>, <<>>)
\* "2019-10"
YearMonth == Token("iso", "2019-10", <<"2", "0", "1", "9">>, <<"1", "0">>)
\* "2020-13": no month
YearThirteen == Token("iso", "2020-13", <<"2", "0", "2", "0">>, <<"1", "3">>)
\* "q2-2526": the second quarter of the financial year 2025-26
Quarter == Token("quarter", "q2-2526", <<"2", "5", "2", "6">>, <<"2">>)
Data == Token("word", "data", <<>>, <<>>)
\* "summary": a word that holds the month name "mar"
Summary == Token("word", "summary", <<>>, <<>>)

\* the month name that re.search(MONTH_PATTERN) finds in the token, "" if none
MonthNameIn(tok) ==
    IF tok.kind = "month" THEN tok.name
    ELSE IF tok = Summary THEN "mar"
    ELSE ""

\* the year that (20[1-3]\d) finds in the token, <<>> if none
YearIn(tok) == IF tok.kind \in {"year", "iso"} THEN tok.year ELSE <<>>

\* int(s) for a string of digits
RECURSIVE IntOf(_)
IntOf(s) ==
    IF s = <<>> THEN 0
    ELSE 10 * IntOf(SubSeq(s, 1, Len(s) - 1))
         + (CHOOSE d \in 0..9 : DigitsOf(d) = <<s[Len(s)]>>)

\* 1 <= int(mo) <= 12
IsMonthNumber(mo) == IntOf(mo) >= 1 /\ IntOf(mo) <= 12

\* the start of the token i of the text, in a unit in which start + 1 lies
\* before the next token
Position(i) == 2 * i

\* "Find all month-name + year pairs": a month name with a year after it
MonthYearMatches(text) ==
    {[year |-> YearIn(text[i + 1]), month |-> MONTHS[text[i].name], pos |-> Position(i)] :
        i \in {j \in 1..(Len(text) - 1) :
                 text[j].kind = "month" /\ YearIn(text[j + 1]) # <<>>}}

\* "Handle Month1-Month2 Year pattern": the first place where two month names
\* and a year follow each other
RangeMatches(text) ==
    LET starts == {j \in 1..(Len(text) - 2) :
                      /\ text[j].kind = "month"
                      /\ text[j + 1].kind = "month"
                      /\ YearIn(text[j + 2]) # <<>>}
    IN IF starts = {} THEN {}
       ELSE LET i == CHOOSE j \in starts : \A k \in starts : j <= k
            IN {[year |-> YearIn(text[i + 2]), month |-> MONTHS[text[i].name],
                 pos |-> Position(i)],
                [year |-> YearIn(text[i + 2]), month |-> MONTHS[text[i + 1].name],
                 pos |-> Position(i) + 1]}

\* "Also check year-month patterns (2025-09)"
YearMonthMatches(text) ==
    {[year |-> text[i].year, month |-> text[i].month, pos |-> Position(i)] :
        i \in {j \in 1..Len(text) : text[j].kind = "iso" /\ IsMonthNumber(text[j].month)}}

\* results.sort(key=lambda x: (x[2], x[1])); no two results of a text of the
\* model start at the same position
RECURSIVE SortByPosition(_)
SortByPosition(results) ==
    IF results = {} THEN <<>>
    ELSE LET r == CHOOSE x \in results : \A y \in results : x.pos <= y.pos
         IN <<[year |-> r.year, month |-> r.month]>> \o SortByPosition(results \ {r})

\* the dates in the order of their first appearance
RECURSIVE Deduplicate(_)
Deduplicate(dates) ==
    IF dates = <<>> THEN <<>>
    ELSE LET before == Deduplicate(SubSeq(dates, 1, Len(dates) - 1))
             d == dates[Len(dates)]
         IN IF d \in Range(before) THEN before ELSE Append(before, d)

\* _extract_all_month_years
_extract_all_month_years(text) ==
    Deduplicate(SortByPosition(MonthYearMatches(text) \cup RangeMatches(text)
                               \cup YearMonthMatches(text)))

NoDate == [year |-> <<>>, month |-> <<>>]

FirstWhere(text, Test(_)) ==
    LET found == {i \in 1..Len(text) : Test(text[i])}
    IN IF found = {} THEN 0 ELSE CHOOSE i \in found : \A k \in found : i <= k

\* the quarterly pattern of _extract_month_year: q([1-4])[-_\s]?(\d{2,4})
QuarterDate(tok) ==
    LET quarter == IntOf(tok.month)
        year_part == tok.year
        year == IF Len(year_part) = 4 /\ SubSeq(year_part, 1, 2) # <<"2", "0">>
                THEN <<"2", "0">> \o SubSeq(year_part, 1, 2)
                ELSE IF Len(year_part) = 2 THEN <<"2", "0">> \o year_part
                ELSE year_part
        month == <<<<"0", "4">>, <<"0", "7">>, <<"1", "0">>, <<"0", "1">>>>[quarter]
    IN [year |-> IF quarter = 4 THEN DigitsOf(IntOf(year) + 1) ELSE year, month |-> month]

\* _extract_month_year; the texts of the model hold no run of six digits and
\* no two-digit year
_extract_month_year(text) ==
    LET q == FirstWhere(text, LAMBDA tok : tok.kind = "quarter")
        m == FirstWhere(text, LAMBDA tok : MonthNameIn(tok) # "")
        y == FirstWhere(text, LAMBDA tok : YearIn(tok) # <<>>)
        \* re.search: the first year-month pair, whatever its month
        iso == FirstWhere(text, LAMBDA tok : tok.kind = "iso")
    IN IF q # 0 THEN QuarterDate(text[q])
       ELSE IF m # 0 /\ y # 0
            THEN [year |-> YearIn(text[y]), month |-> MONTHS[MonthNameIn(text[m])]]
       ELSE IF iso # 0 /\ IsMonthNumber(text[iso].month)
            THEN [year |-> text[iso].year, month |-> text[iso].month]
       ELSE NoDate

\* f"{year}-{month}"
FormatPeriod(d) == d.year \o <<"-">> \o d.month

\* the value None of a period
NoPeriodFound == <<"None">>

\* parse_period
parse_period(text) ==
    IF text = <<>> THEN NoPeriodFound
    ELSE
      LET all_dates == _extract_all_month_years(text)
          result == _extract_month_year(text)
          \* (?:^|[\s_-])(20[1-3]\d)(?:[\s_-]|$)
          year_match == FirstWhere(text, LAMBDA tok : YearIn(tok) # <<>>)
      IN IF Len(all_dates) >= 2 THEN FormatPeriod(all_dates[Len(all_dates)])
         ELSE IF result # NoDate THEN FormatPeriod(result)
         ELSE IF year_match # 0 THEN YearIn(text[year_match]) \o <<"-">> \o <<"0", "1">>
         ELSE NoPeriodFound

\* parse_period_range: <<start, end>>
parse_period_range(text) ==
    IF text = <<>> THEN <<NoPeriodFound, NoPeriodFound>>
    ELSE
      LET all_dates == _extract_all_month_years(text)
          single == parse_period(text)
      IN IF Len(all_dates) >= 2
         THEN <<FormatPeriod(all_dates[1]), FormatPeriod(all_dates[Len(all_dates)])>>
         ELSE IF single # NoPeriodFound THEN <<single, single>>
         ELSE <<NoPeriodFound, NoPeriodFound>>

MaxPhrases == 3     \* phrases in one text

\* the phrases of the texts: "october 2019", "september 2025", "jan sep 2025",
\* "2025", "2019-10", "2020-13", "q2-2526", "data", "summary", "sep"
Phrases ==
    {<<October, Y2019>>, <<September, Y2025>>, <<Jan, Sep, Y2025>>, <<Y2025>>,
     <<YearMonth>>, <<YearThirteen>>, <<Quarter>>, <<Data>>, <<Summary>>, <<Sep>>}

RECURSIVE Flatten(_)
Flatten(phrases) ==
    IF phrases = <<>> THEN <<>> ELSE Head(phrases) \o Flatten(Tail(phrases))

Texts == {Flatten(ps) : ps \in UNION {[1..n -> Phrases] : n \in 0..MaxPhrases}}

PeriodInit == filename \in Texts /\ periods = NotParsed

\* the two functions are applied to the text
ParsePeriod ==
    /\ periods = NotParsed
    /\ \E single \in {parse_period(filename)}, range \in {parse_period_range(filename)} :
          periods' = [parsed |-> TRUE, period |-> single, start |-> range[1],
                      end |-> range[2]]
    /\ UNCHANGED <<filename, loadVars, extractVars, batchVars, concVars, grainVars,
                   enrichVars, typeVars>>

InitPeriod == IdleLoad /\ IdleExtract /\ IdleBatch /\ IdleConc /\ IdleGrain /\ IdleEnrich
              /\ PeriodInit /\ IdleTypes
NextPeriod == ParsePeriod
SpecPeriod == InitPeriod /\ [][NextPeriod]_vars

\* the dates a reader finds in the text, one after the other: a month name
\* with its year (for two month names before a year, each of them with that
\* year) and the year-month pairs
RECURSIVE DatesRead(_, _)
DatesRead(text, i) ==
    IF i > Len(text) THEN <<>>
    ELSE
      LET tok == text[i]
          next_year == IF i < Len(text) THEN YearIn(text[i + 1]) ELSE <<>>
          after_year == IF i + 1 < Len(text) /\ text[i + 1].kind = "month"
                        THEN YearIn(text[i + 2]) ELSE <<>>
          here == IF tok.kind = "month" /\ next_year # <<>>
                  THEN <<[year |-> next_year, month |-> MONTHS[tok.name]]>>
                  ELSE IF tok.kind = "month" /\ after_year # <<>>
                  THEN <<[year |-> after_year, month |-> MONTHS[tok.name]]>>
                  ELSE IF tok.kind = "iso" /\ IsMonthNumber(tok.month)
                  THEN <<[year |-> tok.year, month |-> tok.month]>>
                  ELSE <<>>
      IN here \o DatesRead(text, i + 1)

\* the first place of the text where two month names stand before a year, 0
\* if there is none
FirstRange(text) ==
    LET starts == {j \in 1..(Len(text) - 2) :
                      /\ text[j].kind = "month"
                      /\ text[j + 1].kind = "month"
                      /\ YearIn(text[j + 2]) # <<>>}
    IN IF starts = {} THEN 0 ELSE CHOOSE j \in starts : \A k \in starts : j <= k

\* the dates read as above, two month names before a year being read as two
\* dates only at the first such place of the text
RECURSIVE DatesReadOnce(_, _)
DatesReadOnce(text, i) ==
    IF i > Len(text) THEN <<>>
    ELSE
      LET tok == text[i]
          next_year == IF i < Len(text) THEN YearIn(text[i + 1]) ELSE <<>>
          here == IF tok.kind = "month" /\ next_year # <<>>
                  THEN <<[year |-> next_year, month |-> MONTHS[tok.name]]>>
                  ELSE IF tok.kind = "month" /\ i = FirstRange(text)
                  THEN <<[year |-> YearIn(text[i + 2]), month |-> MONTHS[tok.name]]>>
                  ELSE IF tok.kind = "iso" /\ IsMonthNumber(tok.month)
                  THEN <<[year |-> tok.year, month |-> tok.month]>>
                  ELSE <<>>
      IN here \o DatesReadOnce(text, i + 1)

\* the text holds a year or more, words, and nothing else
YearOnly(text) ==
    /\ \E i \in DOMAIN text : text[i].kind = "year"
    /\ \A i \in DOMAIN text : text[i].kind \in {"year", "word"}

\* the Januaries of the years of the text
Januaries(text) ==
    {text[i].year \o <<"-">> \o <<"0", "1">> : i \in {j \in DOMAIN text : text[j].kind = "year"}}

\* C19 as stated: parse_period(text) is the end component of
\* parse_period_range(text); when the text contains two or more month-year
\* dates both use the last date as the end and the range starts at the first
\* date; when it contains a single date or only a year, which is mapped to
\* January, start and end of the range are the same period; when no period is
\* found the results are None and (None, None).
C19_PeriodIsRangeEnd ==
    periods # NotParsed =>
        LET dates == DatesRead(filename, 1)
        IN /\ periods.period = periods.end
           /\ Len(dates) >= 2 =>
                 /\ periods.end = FormatPeriod(dates[Len(dates)])
                 /\ periods.start = FormatPeriod(dates[1])
           /\ Len(dates) < 2 => periods.start = periods.end
           /\ YearOnly(filename) => periods.period \in Januaries(filename)
           /\ periods.period = NoPeriodFound =>
                 periods.start = NoPeriodFound /\ periods.end = NoPeriodFound

\* what the code does on every text: parse_period(text) is the end component
\* of parse_period_range(text); when the text contains two or more different
\* dates (a "Month1-Month2 Year" range counting as two dates only where it
\* first occurs), both use as the end the last of them in the order of their
\* first appearance, and the range starts at the first; otherwise start and
\* end of the range are both parse_period(text), which for a text of years and
\* of words that hold no month name is the January of a year of the text;
\* when no period is found the results are None and (None, None).
PeriodIsEndOfDistinctDates ==
    periods # NotParsed =>
        LET dates == Deduplicate(DatesReadOnce(filename, 1))
        IN /\ periods.period = periods.end
           /\ Len(dates) >= 2 =>
                 /\ periods.end = FormatPeriod(dates[Len(dates)])
                 /\ periods.start = FormatPeriod(dates[1])
           /\ Len(dates) < 2 => periods.start = periods.end
           /\ (YearOnly(filename) /\ \A i \in DOMAIN filename : MonthNameIn(filename[i]) = "")
                 => periods.period \in Januaries(filename)
           /\ periods.period = NoPeriodFound =>
                 periods.start = NoPeriodFound /\ periods.end = NoPeriodFound

\* "october 2019 september 2025 october 2019" was parsed: the range ends at
\* the second date
RepeatedDateParsed ==
    /\ periods # NotParsed
    /\ filename = <<October, Y2019, September, Y2025, October, Y2019>>
    /\ periods.start = FormatPeriod([year |-> <<"2", "0", "1", "9">>, month |-> <<"1", "0">>])
    /\ periods.end = FormatPeriod([year |-> <<"2", "0", "2", "5">>, month |-> <<"0", "9">>])
    /\ periods.period = periods.end

\* "2025 summary" was parsed: both functions return March 2025
C19_YearOnlyAsMarch ==
    /\ periods # NotParsed
    /\ filename = <<Y2025, Summary>>
    /\ periods.period = FormatPeriod([year |-> <<"2", "0", "2", "5">>, month |-> <<"0", "3">>])
    /\ periods.start = periods.period
    /\ periods.end = periods.period

-----------------------------------------------------------------------------
(* Type inference of the extractor: _infer_column_types and                *)
(* _infer_type_from_values.  A column is [name, cells]; a cell is None or  *)
(* the kind of its value: an int (12), a float that is whole (12.0), a      *)
(* float with a fraction (12.5), a date, or a string: words, digits        *)
(* ("12"), a decimal ("1.5"), a suppression marker ("-") or a text longer  *)
(* than 100 characters.                                                     *)

CellKinds == {"int", "whole", "frac", "date", "words", "digits", "decimal",
              "suppressed", "longtext"}

\* cell.data_type as openpyxl sets it
DataType(kind) ==
    IF kind \in {"int", "whole", "frac"} THEN "n"
    ELSE IF kind = "date" THEN "d" ELSE "s"

\* cell.data_type == 'n' and isinstance(val, (int, float)) and val % 1 != 0
HasFraction(kind) == kind = "frac"

\* str(v).strip().lower() in SUPPRESSED_VALUES
IsSuppressed(kind) == kind = "suppressed"

\* float(s.replace(...)) succeeds
FloatParses(kind) == kind \in {"int", "whole", "frac", "digits", "decimal"}

\* '.' in s
HasPoint(kind) == kind \in {"whole", "frac", "decimal"}

\* len(str(v)) > 100
IsLong(kind) == kind = "longtext"

\* the lists of name hints of _infer_type_from_values
DateHints == {<<"d", "a", "t", "e">>, <<"m", "o", "n", "t", "h">>, <<"y", "e", "a", "r">>,
              <<"q", "u", "a", "r", "t", "e", "r">>, <<"p", "e", "r", "i", "o", "d">>}
LongTextHints == {<<"d", "e", "s", "c", "r", "i", "p", "t", "i", "o", "n">>,
                  <<"d", "e", "f", "i", "n", "i", "t", "i", "o", "n">>,
                  <<"n", "o", "t", "e", "s">>, <<"c", "o", "m", "m", "e", "n", "t">>,
                  <<"d", "e", "t", "a", "i", "l">>}
LabelHints == {<<"n", "a", "m", "e">>, <<"c", "a", "t", "e", "g", "o", "r", "y">>,
               <<"g", "r", "o", "u", "p">>, <<"t", "r", "u", "s", "t">>,
               <<"t", "y", "p", "e">>}
CodeHints == {<<"c", "o", "d", "e">>, <<"o", "r", "g">>, <<"i", "c", "s">>,
              <<"n", "h", "s", "e">>}
RateHints == {<<"p", "e", "r", "c", "e", "n", "t">>, <<"r", "a", "t", "e">>, <<"%">>}

\* any(x in name_lower for x in hints)
Hinted(col_name, hints) == \E h \in hints : Contains(Lower(col_name), h)

TypeSampleSize == 25     \* clean[:25]
SampleRows == 100        \* r < data_start_row + 100

Prefix(s, n) == SubSeq(s, 1, Min(n, Len(s)))

\* count / total > 0.7
OverSeventyPercent(count, total) == 10 * count > 7 * total

\* _infer_type_from_values
_infer_type_from_values(values, col_name) ==
    LET has_suppression == \E i \in DOMAIN values : values[i] # None /\ IsSuppressed(values[i])
        clean == SelectSeq(values, LAMBDA v : v # None /\ ~IsSuppressed(v))
        sampled == Prefix(clean, TypeSampleSize)
        numeric == {i \in DOMAIN sampled : FloatParses(sampled[i])}
        float_count == Cardinality({i \in numeric : HasPoint(sampled[i])})
        int_count == Cardinality({i \in numeric : ~HasPoint(sampled[i])})
        total == Len(sampled)
    IN IF has_suppression THEN "VARCHAR(255)"
       ELSE IF clean = <<>> THEN "VARCHAR(255)"
       ELSE IF Hinted(col_name, DateHints) THEN "VARCHAR(255)"
       ELSE IF Hinted(col_name, LongTextHints) THEN "TEXT"
       ELSE IF Hinted(col_name, LabelHints) THEN "VARCHAR(255)"
       ELSE IF Hinted(col_name, CodeHints) THEN "VARCHAR(20)"
       ELSE IF OverSeventyPercent(int_count, total) /\ float_count = 0 THEN "INTEGER"
       ELSE IF OverSeventyPercent(int_count + float_count, total)
       THEN IF Hinted(col_name, RateHints) THEN "NUMERIC(10,4)" ELSE "DOUBLE PRECISION"
       ELSE IF \A i \in DOMAIN sampled : ~IsLong(sampled[i]) THEN "VARCHAR(255)"
       ELSE "TEXT"

\* _infer_column_types for one column: cells are the cells of the column in
\* the rows data_start_row..data_end_row
InferColumnType(cells, col_name) ==
    LET cell_types_seen == {DataType(cells[i]) : i \in {j \in DOMAIN cells : cells[j] # None}}
        has_decimal_values == \E i \in DOMAIN cells : cells[i] # None /\ HasFraction(cells[i])
        sample_values == Prefix(cells, SampleRows)
        has_numeric == "n" \in cell_types_seen \/ "d" \in cell_types_seen
        has_text == "s" \in cell_types_seen
    IN IF has_numeric /\ has_text THEN "VARCHAR(255)"
       ELSE IF has_numeric /\ has_decimal_values THEN "DOUBLE PRECISION"
       ELSE _infer_type_from_values(sample_values, col_name)

MaxMixedCells == 3       \* cells of a column of mixed kinds
MaxCountedCells == 10    \* cells of a column of strings
MaxColumnCells == 26     \* cells of a long column

\* n cells of one kind
Rep(kind, n) == [i \in 1..n |-> kind]

\* the names of the columns: one without a hint, and one for each list of hints
TypeNames ==
    {<<"b", "e", "d", "s">>,
     <<"y", "e", "a", "r", "_", "v", "a", "l">>,
     <<"n", "o", "t", "e", "s">>,
     <<"t", "y", "p", "e", "_", "v", "a", "l">>,
     <<"o", "r", "g", "_", "c", "o", "d", "e">>,
     <<"r", "a", "t", "e">>}

\* the cells of the columns: every short column; the columns of digit
\* strings, decimal strings and words by how many of each they hold; and the
\* long columns of digit strings and words, either kind first
TypeCells ==
    UNION {[1..n -> CellKinds \cup {None}] : n \in 0..MaxMixedCells}
    \cup {Rep("digits", d) \o Rep("decimal", f) \o Rep("words", t) :
             d \in 0..MaxCountedCells, f \in 0..MaxCountedCells, t \in 0..MaxCountedCells}
    \cup {Rep("digits", d) \o Rep("words", n - d) :
             n \in (MaxCountedCells + 1)..MaxColumnCells, d \in 0..MaxColumnCells}
    \cup {Rep("words", n - d) \o Rep("digits", d) :
             n \in (MaxCountedCells + 1)..MaxColumnCells, d \in 0..MaxColumnCells}

TypesInit ==
    /\ column \in {[name |-> name, cells |-> cells] :
                      name \in TypeNames,
                      cells \in {c \in TypeCells : Len(c) <= MaxColumnCells}}
    /\ inferred_type = NotInferred

\* _infer_column_types reaches the column
InferType ==
    /\ inferred_type = NotInferred
    /\ inferred_type' = InferColumnType(column.cells, column.name)
    /\ UNCHANGED <<column, loadVars, extractVars, batchVars, concVars, grainVars,
                   enrichVars, periodVars>>

InitTypes == IdleLoad /\ IdleExtract /\ IdleBatch /\ IdleConc /\ IdleGrain /\ IdleEnrich
             /\ IdlePeriod /\ TypesInit
NextTypes == InferType
SpecTypes == InitTypes /\ [][NextTypes]_vars

\* the native types of the cells of the column that hold a value
NativeTypes == {DataType(column.cells[i]) :
                   i \in {j \in DOMAIN column.cells : column.cells[j] # None}}

\* the storage types that are text
TextTypes == {"VARCHAR(255)", "VARCHAR(20)", "TEXT"}

\* every cell with a value is a number, and one of them is not integral
OnlyNumbersWithFraction ==
    /\ NativeTypes = {"n"}
    /\ \E i \in DOMAIN column.cells : column.cells[i] = "frac"

\* every cell with a value is a number, and all of them are integral
OnlyIntegralNumbers ==
    /\ NativeTypes = {"n"}
    /\ \A i \in DOMAIN column.cells : column.cells[i] \in {None, "int", "whole"}

\* C23 as stated: a column whose data cells mix numeric and text native types
\* is typed as text; a column with only numeric native cells and at least one
\* non-integral value is typed DOUBLE PRECISION; a column with only numeric
\* native cells that are all integral is typed INTEGER, whatever its name.
C23_NativeTypes ==
    inferred_type # NotInferred =>
        /\ {"n", "s"} \subseteq NativeTypes => inferred_type \in TextTypes
        /\ OnlyNumbersWithFraction => inferred_type = "DOUBLE PRECISION"
        /\ OnlyIntegralNumbers => inferred_type = "INTEGER"

\* a column without a name hint whose cells are the floats 12.0 and 7.0 was
\* typed DOUBLE PRECISION
C23_WholeFloatsTypedReal ==
    /\ column.name = <<"b", "e", "d", "s">>
    /\ column.cells = <<"whole", "whole">>
    /\ OnlyIntegralNumbers
    /\ inferred_type = "DOUBLE PRECISION"

\* the storage types that are numeric
NumericTypes == {"INTEGER", "DOUBLE PRECISION", "NUMERIC(10,4)"}

\* the column has no overriding name hint, no suppression marker, and its
\* cells are strings, some of them with a value
SampledAsStrings ==
    /\ ~Hinted(column.name, DateHints \cup LongTextHints \cup LabelHints \cup CodeHints)
    /\ NativeTypes = {"s"}
    /\ \A i \in DOMAIN column.cells : column.cells[i] # "suppressed"

\* the sampled values: up to 25 values that are not null
SampledValues == Prefix(SelectSeq(column.cells, LAMBDA v : v # None), TypeSampleSize)

\* how many of the sampled values are numeric-parseable
ParseableCount == Cardinality({i \in DOMAIN SampledValues : FloatParses(SampledValues[i])})

\* C24: for a column with no overriding name hint and no suppression marker,
\* if at least 70% of the (up to 25) sampled non-null values are
\* numeric-parseable the column is typed numeric, also when the share is
\* exactly 70%; below 70% it is typed text.
C24_SeventyPercent ==
    (inferred_type # NotInferred /\ SampledAsStrings) =>
        IF 10 * ParseableCount >= 7 * Len(SampledValues)
        THEN inferred_type \in NumericTypes
        ELSE inferred_type \in TextTypes

\* a column of seven digit strings and three words was typed VARCHAR(255)
C24_ExactlySeventyIsText ==
    /\ column.name = <<"b", "e", "d", "s">>
    /\ column.cells = Rep("digits", 7) \o Rep("words", 3)
    /\ inferred_type = "VARCHAR(255)"

\* what the code does: numeric above 70%, text at 70% and below
NumericAboveSeventy ==
    (inferred_type # NotInferred /\ SampledAsStrings) =>
        IF 10 * ParseableCount > 7 * Len(SampledValues)
        THEN inferred_type \in NumericTypes
        ELSE inferred_type \in TextTypes

-----------------------------------------------------------------------------
(* Concurrent load calls against one destination table.  Each call of       *)
(* load_dataframe opens its own connection (get_connection), so its         *)
(* statements run in one transaction at PostgreSQL's default isolation      *)
(* level, READ COMMITTED: a statement sees what was committed when it       *)
(* started, a DELETE waits for a row another open transaction has deleted,  *)
(* ALTER TABLE holds an ACCESS EXCLUSIVE lock until its transaction ends,   *)
(* DELETE and COPY hold a ROW EXCLUSIVE lock.                               *)

MaxConcLoads == 3

\* the column of the table from the start, and the one a later release adds
FirstColumn == <<"a">>
LaterColumn == <<"b">>

\* the other worker
Other(w) == CHOOSE o \in Workers : o # w

\* the table as an earlier load left it: its columns, and no row or the row
\* of one period
ConcInit ==
    /\ \E old \in SUBSET {[id |-> 0, period |-> "2024-11", load |-> 0]} :
          pg = [cols |-> {FirstColumn, PeriodCol}, rows |-> old]
    /\ txn = [w \in Workers |-> NoTxn]
    /\ nloads = 0

\* with get_connection() as conn: a load call for a period connects; nothing
\* in load_dataframe or get_connection waits for another call on the table
Connect(w) ==
    /\ txn[w].pc = "idle"
    /\ nloads < MaxConcLoads
    /\ \E period \in Periods, new_column \in BOOLEAN :
          txn' = [txn EXCEPT ![w] = [NoTxn EXCEPT !.pc = "create", !.period = period,
                                                  !.new_column = new_column,
                                                  !.load = nloads + 1]]
    /\ nloads' = nloads + 1
    /\ UNCHANGED pg

\* cur.execute(ddl): CREATE TABLE IF NOT EXISTS on the table that exists
ConcCreate(w) ==
    /\ txn[w].pc = "create"
    /\ txn' = [txn EXCEPT ![w].pc = "select"]
    /\ UNCHANGED <<pg, nloads>>

\* existing_cols: the committed columns of the table
ConcSelectColumns(w) ==
    /\ txn[w].pc = "select"
    /\ txn' = [txn EXCEPT ![w].pc = "alter", ![w].existing_cols = pg.cols]
    /\ UNCHANGED <<pg, nloads>>

\* the columns of the call's frame
ConcFrameColumns(t) ==
    {FirstColumn, PeriodCol} \cup (IF t.new_column THEN {LaterColumn} ELSE {})

\* ALTER TABLE ADD COLUMN for each column not in existing_cols: waits until no
\* other transaction holds a lock on the table; raises when the column has
\* been committed by another call since existing_cols was read
ConcAlter(w) ==
    /\ txn[w].pc = "alter"
    /\ LET missing == ConcFrameColumns(txn[w]) \ txn[w].existing_cols
       IN IF missing = {}
          THEN txn' = [txn EXCEPT ![w].pc = "delete"]
          ELSE /\ txn[Other(w)].lock = "none"
               /\ IF missing \cap pg.cols # {}
                  THEN txn' = [txn EXCEPT ![w] = NoTxn]
                  ELSE txn' = [txn EXCEPT ![w].pc = "delete", ![w].added_cols = missing,
                                          ![w].lock = "access"]
    /\ UNCHANGED <<pg, nloads>>

\* DELETE FROM t WHERE period = %s starts: it will delete the rows of the
\* period that are committed now
ConcDeleteStart(w) ==
    /\ txn[w].pc = "delete"
    /\ IF txn[w].period # NoPeriod /\ PeriodCol \in txn[w].existing_cols
       THEN /\ txn[Other(w)].lock # "access"
            /\ txn' = [txn EXCEPT ![w].pc = "deleting",
                                  ![w].snapshot = {r \in pg.rows : r.period = txn[w].period},
                                  ![w].lock = IF @ = "access" THEN @ ELSE "row"]
       ELSE txn' = [txn EXCEPT ![w].pc = "copy"]
    /\ UNCHANGED <<pg, nloads>>

\* the DELETE ends once no row it wants is held by another open transaction;
\* a row whose deletion was committed meanwhile is passed over
ConcDeleteEnd(w) ==
    /\ txn[w].pc = "deleting"
    /\ txn[Other(w)].deleted \cap txn[w].snapshot = {}
    /\ txn' = [txn EXCEPT ![w].pc = "copy", ![w].deleted = txn[w].snapshot \cap pg.rows]
    /\ UNCHANGED <<pg, nloads>>

\* cur.copy_expert: the rows of the batch, with the period of the call
ConcCopy(w) ==
    /\ txn[w].pc = "copy"
    /\ txn[Other(w)].lock # "access"
    /\ txn' = [txn EXCEPT ![w].pc = "commit",
                          ![w].inserted = {[id |-> txn[w].load, period |-> txn[w].period,
                                            load |-> txn[w].load]},
                          ![w].lock = IF @ = "access" THEN @ ELSE "row"]
    /\ UNCHANGED <<pg, nloads>>

\* get_connection after the yield: conn.commit(), conn.close()
ConcCommit(w) ==
    /\ txn[w].pc = "commit"
    /\ pg' = [cols |-> pg.cols \cup txn[w].added_cols,
              rows |-> (pg.rows \ txn[w].deleted) \cup txn[w].inserted]
    /\ txn' = [txn EXCEPT ![w] = NoTxn]
    /\ UNCHANGED nloads

\* get_connection when a statement raised: conn.rollback(), conn.close()
ConcRollback(w) ==
    /\ txn[w].pc \in {"create", "select", "alter", "delete", "copy"}
    /\ txn' = [txn EXCEPT ![w] = NoTxn]
    /\ UNCHANGED <<pg, nloads>>

InitConc == IdleLoad /\ IdleExtract /\ IdleBatch /\ ConcInit /\ IdleGrain /\ IdleEnrich
            /\ IdlePeriod /\ IdleTypes
ConcFrame == UNCHANGED <<loadVars, extractVars, batchVars, grainVars, enrichVars, periodVars, typeVars>>
NextConc ==
    \/ \E w \in Workers : Connect(w) /\ ConcFrame
    \/ \E w \in Workers : ConcCreate(w) /\ ConcFrame
    \/ \E w \in Workers : ConcSelectColumns(w) /\ ConcFrame
    \/ \E w \in Workers : ConcAlter(w) /\ ConcFrame
    \/ \E w \in Workers : ConcDeleteStart(w) /\ ConcFrame
    \/ \E w \in Workers : ConcDeleteEnd(w) /\ ConcFrame
    \/ \E w \in Workers : ConcCopy(w) /\ ConcFrame
    \/ \E w \in Workers : ConcCommit(w) /\ ConcFrame
    \/ \E w \in Workers : ConcRollback(w) /\ ConcFrame
SpecConc == InitConc /\ [][NextConc]_vars

\* C11: load calls against one table are serialized: the ensure-schema,
\* delete-period and bulk-write steps of two concurrent calls never interleave,
\* so two concurrent loads of the same period cannot both leave their rows in
\* the table.
C11_LoadsSerialized ==
    /\ ~(\A w \in Workers : txn[w].pc \in {"select", "alter", "delete", "deleting",
                                            "copy", "commit"})
    /\ \A r1, r2 \in pg.rows : r1.period = r2.period => r1.load = r2.load

\* two calls for the same period ran their statements in turn and both
\* committed: the table holds the rows of both
C11_BothLeftRows ==
    /\ \A w \in Workers : txn[w].pc = "idle"
    /\ \E r1, r2 \in pg.rows : r1.period = r2.period /\ r1.load # r2.load /\ r1.load > 0
                                /\ r2.load > 0

=============================================================================
